---- MODULE Spec2Model ----
(***************************************************************************)
(* A model of the resilient streaming broadcast layer:                     *)
(*   backend/error_handler.py      RetryStrategy, CircuitBreaker,          *)
(*                                 ErrorHandler                            *)
(*   backend/websocket_manager.py  ConnectionInfo,                         *)
(*                                 EnhancedConnectionManager               *)
(* Coroutines run on one asyncio event loop: a step of the model is the    *)
(* code a coroutine runs between two awaits.                               *)
(***************************************************************************)
EXTENDS Integers, Sequences, FiniteSets, Bags, TLC

VARIABLES
    now,                \* datetime.now(), in seconds
    circuit_breakers,   \* ErrorHandler.circuit_breakers: provider -> CircuitBreaker
    calls,              \* the execute_with_retry coroutines in flight: a bag
                        \* of call records (coroutines have no identity)
    probes,             \* history: provider -> the calls can_execute() has let
                        \* through since the breaker became half-open
    service_failures,   \* history: provider -> the calls in a row that ended
                        \* by raising a service_error-classified error

    connections,        \* EnhancedConnectionManager.connections:
                        \* connection id -> ConnectionInfo
    session_connections,\* session id -> set of connection ids
    detached,           \* the ConnectionInfo objects removed from the table
                        \* that a suspended coroutine still holds
    next_id,            \* the connection ids issued so far (uuid4 is fresh)
    background_tasks_started,
    broadcasts,         \* the send_event coroutines in flight (a bag)
    sends,              \* the send_to_connection / ping_connection coroutines
    heartbeat,          \* the _heartbeat_monitor task
    issued,             \* history: the session of each event a producer
                        \* has passed to send_event; the events are
                        \* numbered 1, 2, ... in the order of the calls
    received,           \* history: connection id -> its session and the
                        \* events its send_text has delivered, in the order
                        \* of delivery

    input,              \* the arguments of the latest call of
                        \* classify_error, create_error_event, or of a
                        \* method of SessionManager or AdapterRegistry
    output,             \* what that call returned
    generator,          \* an LLMAdapter.stream_with_error_handling
                        \* generator and the adapter stream it wraps
    sessions,           \* SessionManager.sessions: the Session objects in
                        \* the insertion order of the dict, keyed by their id
    max_sessions,       \* SessionManager.max_sessions
    adapters,           \* AdapterRegistry._adapters: provider name -> class
    instances           \* AdapterRegistry._instances: provider name -> adapter

ehVars == <<circuit_breakers, calls, probes, service_failures>>
wsVars == <<connections, session_connections, detached, next_id,
            background_tasks_started, broadcasts, sends, heartbeat>>
logVars == <<issued, received>>
callVars == <<input, output>>
smVars == <<sessions, max_sessions>>
regVars == <<adapters, instances>>
libVars == <<input, output, generator, sessions, max_sessions, adapters,
             instances>>
vars == <<now, circuit_breakers, calls, probes, service_failures,
          connections, session_connections, detached, next_id,
          background_tasks_started, broadcasts, sends, heartbeat,
          issued, received, input, output, generator, sessions,
          max_sessions, adapters, instances>>

(***************************************************************************)
(* Bounds of the model                                                     *)
(***************************************************************************)
MaxCalls == 2           \* execute_with_retry coroutines in flight at once
MaxConnections == 2     \* connections accepted in a run
MaxBroadcasts == 1      \* send_event coroutines in flight at once
MaxSends == 1           \* send_to_connection / ping_connection coroutines
MaxOverlap == 2         \* send_event coroutines in flight at once when
                        \* several producers call it
Sessions == {"s1", "s2"}
Events == {"token"}
MaxEvents == 3          \* events a producer passes to send_event in a run
MaxTime == 61           \* the clock stops here
TickSteps == {60, 61}   \* seconds by which the clock advances in one step
Providers == {"P"}
AllProviders == {"P", "Q"}  \* the providers of the runs that call several

NoneTime == 0 - 1       \* last_failure_time = None

(***************************************************************************)
(* Strings are sequences of characters, so that lower() and the `in'       *)
(* substring test do what they do in the code.                             *)
(***************************************************************************)
UpperChars == <<"A","B","C","D","E","F","G","H","I","J","K","L","M",
                "N","O","P","Q","R","S","T","U","V","W","X","Y","Z">>
LowerChars == <<"a","b","c","d","e","f","g","h","i","j","k","l","m",
                "n","o","p","q","r","s","t","u","v","w","x","y","z">>

lower_char(ch) ==
    IF \E i \in 1..Len(UpperChars) : UpperChars[i] = ch
    THEN LowerChars[CHOOSE i \in 1..Len(UpperChars) : UpperChars[i] = ch]
    ELSE ch

lower(s) == [i \in 1..Len(s) |-> lower_char(s[i])]

\* Python's  k in s  for strings
contains(s, k) ==
    \E i \in 1..(Len(s) - Len(k) + 1) : SubSeq(s, i, i + Len(k) - 1) = k

kw_timeout == <<"t","i","m","e","o","u","t">>
kw_timed_out == <<"t","i","m","e","d"," ","o","u","t">>
kw_rate_limit == <<"r","a","t","e"," ","l","i","m","i","t">>
kw_too_many_requests ==
    <<"t","o","o"," ","m","a","n","y"," ","r","e","q","u","e","s","t","s">>
kw_auth == <<"a","u","t","h">>
kw_unauthorized == <<"u","n","a","u","t","h","o","r","i","z","e","d">>
kw_network == <<"n","e","t","w","o","r","k">>
kw_connection == <<"c","o","n","n","e","c","t","i","o","n">>

(***************************************************************************)
(* ErrorType and the retry table                                           *)
(***************************************************************************)
RATE_LIMIT == "rate_limit"
TIMEOUT == "timeout"
AUTH_ERROR == "auth_error"
SERVICE_ERROR == "service_error"
NETWORK_ERROR == "network_error"
VALIDATION_ERROR == "validation_error"
UNKNOWN_ERROR == "unknown_error"

ErrorType == {RATE_LIMIT, TIMEOUT, AUTH_ERROR, SERVICE_ERROR, NETWORK_ERROR,
              VALIDATION_ERROR, UNKNOWN_ERROR}

\* RetryStrategy objects; delays in milliseconds
RetryStrategy(max_retries, base_delay, max_delay) ==
    [max_retries |-> max_retries, base_delay |-> base_delay,
     max_delay |-> max_delay, exponential_base |-> 2, jitter |-> TRUE]

retry_strategies ==
    [k \in ErrorType |->
        CASE k = RATE_LIMIT       -> RetryStrategy(5, 2000, 120000)
          [] k = TIMEOUT          -> RetryStrategy(3, 1000, 30000)
          [] k = SERVICE_ERROR    -> RetryStrategy(3, 5000, 60000)
          [] k = NETWORK_ERROR    -> RetryStrategy(4, 1000, 30000)
          [] k = AUTH_ERROR       -> RetryStrategy(0, 1000, 60000)
          [] k = VALIDATION_ERROR -> RetryStrategy(0, 1000, 60000)
          [] k = UNKNOWN_ERROR    -> RetryStrategy(2, 2000, 30000)]

RECURSIVE pow(_, _)
pow(b, n) == IF n = 0 THEN 1 ELSE b * pow(b, n - 1)

Min(a, b) == IF a <= b THEN a ELSE b

\* r is random.random() in thousandths, 0 <= r < 1000
JitterSamples == {0, 998}

\* get_delay with the jitter factor  0.5 + random.random()
get_delay_wide_jitter(strategy, attempt, r) ==
    LET delay == Min(strategy.base_delay * pow(strategy.exponential_base, attempt),
                     strategy.max_delay)
    IN  IF strategy.jitter THEN (delay * (500 + r)) \div 1000 ELSE delay

get_delay(strategy, attempt, r) ==
    LET delay == Min(strategy.base_delay * pow(strategy.exponential_base, attempt),
                     strategy.max_delay)
    IN  IF strategy.jitter THEN (delay * (1000 + r)) \div 2000 ELSE delay

(***************************************************************************)
(* ErrorHandler.classify_error: status_code 0 stands for None              *)
(***************************************************************************)
\* classify_by_status with the test for 400 and above ahead of the one
\* for 500 and above
classify_by_status_400_first(status_code) ==
    IF status_code = 429 THEN RATE_LIMIT
    ELSE IF status_code \in {401, 403} THEN AUTH_ERROR
    ELSE IF status_code >= 400 THEN VALIDATION_ERROR
    ELSE IF status_code >= 500 THEN SERVICE_ERROR
    ELSE "fallthrough"

classify_by_status(status_code) ==
    IF status_code = 429 THEN RATE_LIMIT
    ELSE IF status_code \in {401, 403} THEN AUTH_ERROR
    ELSE IF status_code >= 500 THEN SERVICE_ERROR
    ELSE IF status_code >= 400 THEN VALIDATION_ERROR
    ELSE "fallthrough"

\* classify_by_message without  .lower()
classify_by_message_case_sensitive(message) ==
    LET error_str == message
    IN  IF contains(error_str, kw_timeout) \/ contains(error_str, kw_timed_out)
        THEN TIMEOUT
        ELSE IF contains(error_str, kw_rate_limit)
                \/ contains(error_str, kw_too_many_requests)
        THEN RATE_LIMIT
        ELSE IF contains(error_str, kw_auth) \/ contains(error_str, kw_unauthorized)
        THEN AUTH_ERROR
        ELSE IF contains(error_str, kw_network) \/ contains(error_str, kw_connection)
        THEN NETWORK_ERROR
        ELSE UNKNOWN_ERROR

classify_by_message(message) ==
    LET error_str == lower(message)
    IN  IF contains(error_str, kw_timeout) \/ contains(error_str, kw_timed_out)
        THEN TIMEOUT
        ELSE IF contains(error_str, kw_rate_limit)
                \/ contains(error_str, kw_too_many_requests)
        THEN RATE_LIMIT
        ELSE IF contains(error_str, kw_auth) \/ contains(error_str, kw_unauthorized)
        THEN AUTH_ERROR
        ELSE IF contains(error_str, kw_network) \/ contains(error_str, kw_connection)
        THEN NETWORK_ERROR
        ELSE UNKNOWN_ERROR

classify_error(message, status_code) ==
    IF status_code # 0 /\ classify_by_status(status_code) # "fallthrough"
    THEN classify_by_status(status_code)
    ELSE classify_by_message(message)

(***************************************************************************)
(* The errors an operation raises: str(error), and the HTTP status the     *)
(* provider answered with (0: none).  execute_with_retry sees the          *)
(* exception only.                                                         *)
(***************************************************************************)
Error(message, status) == [message |-> message, status |-> status]

err_timeout == Error(<<"R","e","q","u","e","s","t"," ","t","i","m","e","d"," ","o","u","t">>, 0)
err_rate_limit == Error(<<"R","a","t","e"," ","l","i","m","i","t"," ","h","i","t">>, 0)
err_auth == Error(<<"U","n","a","u","t","h","o","r","i","z","e","d">>, 0)
err_network == Error(<<"C","o","n","n","e","c","t","i","o","n"," ","r","e","s","e","t">>, 0)
err_unknown == Error(<<"b","o","o","m">>, 0)
err_503 == Error(<<"S","e","r","v","i","c","e"," ","u","n","a","v","a","i","l","a","b","l","e">>, 503)

OperationErrors ==
    {err_timeout, err_rate_limit, err_auth, err_network, err_unknown, err_503}

NoError == Error(<<>>, 0)   \* last_error = None

\* line 193:  Exception(f"Circuit breaker open for provider {provider}");
\* provider names are one character long
circuit_open_message(provider) ==
    <<"C","i","r","c","u","i","t"," ","b","r","e","a","k","e","r"," ",
      "o","p","e","n"," ","f","o","r"," ","p","r","o","v","i","d","e","r"," ">>
    \o <<provider>>

circuit_open_error(provider) == Error(circuit_open_message(provider), 0)

\* what an operation raises that is itself a guarded call for the provider
\* (execute_with_retry inside operation()) and finds the breaker open
NestedErrors == {circuit_open_error(p) : p \in Providers}

RaisedErrors == OperationErrors \cup NestedErrors

\* classify_error(error) as execute_with_retry calls it, without a status code
error_types == [error \in RaisedErrors |-> classify_error(error.message, 0)]

\* the kind of the error given the status the provider answered with
status_types ==
    [error \in OperationErrors |-> classify_error(error.message, error.status)]

\* create_error_event that classifies as the executor does, without the
\* status code
create_error_event_without_status(message, pane_id, status_code) ==
    LET error_type == classify_error(message, 0)
        retry_strategy == retry_strategies[error_type]
    IN  [type |-> "error",
         pane_id |-> pane_id,
         data |-> [message |-> message,
                   code |-> error_type,
                   retryable |-> retry_strategy.max_retries > 0]]

\* ErrorHandler.create_error_event; message is str(error)
create_error_event(message, pane_id, status_code) ==
    LET error_type == classify_error(message, status_code)
        retry_strategy == retry_strategies[error_type]
    IN  [type |-> "error",
         pane_id |-> pane_id,
         data |-> [message |-> message,
                   code |-> error_type,
                   retryable |-> retry_strategy.max_retries > 0]]

(***************************************************************************)
(* CircuitBreaker                                                          *)
(***************************************************************************)
failure_threshold == 5
recovery_timeout == 60

CircuitBreaker ==
    [failure_count |-> 0, last_failure_time |-> NoneTime, state |-> "closed"]

\* what can_execute() returns at time t
can_execute(cb, t) ==
    IF cb.state = "closed" THEN TRUE
    ELSE IF cb.state = "open"
         THEN (t - cb.last_failure_time) > recovery_timeout
         ELSE TRUE

\* can_execute_effect with the half-open transition taken before the
\* timeout is looked at
can_execute_effect_eager(cb, t) ==
    IF cb.state = "open" THEN [cb EXCEPT !.state = "half-open"] ELSE cb

\* the breaker after can_execute() at time t
can_execute_effect(cb, t) ==
    IF cb.state = "open" /\ (t - cb.last_failure_time) > recovery_timeout
    THEN [cb EXCEPT !.state = "half-open"]
    ELSE cb

\* record_success that forgets  self.state = "closed"
record_success_keeps_state(cb) ==
    [cb EXCEPT !.failure_count = 0]

\* record_success that forgets  self.failure_count = 0
record_success_keeps_count(cb) ==
    [cb EXCEPT !.state = "closed"]

record_success(cb) ==
    [cb EXCEPT !.failure_count = 0, !.state = "closed"]

\* record_failure that never opens the breaker
record_failure_never_opens(cb, t) ==
    [cb EXCEPT !.failure_count = @ + 1, !.last_failure_time = t]

\* record_failure that opens the breaker one failure late
record_failure_opens_late(cb, t) ==
    LET count == cb.failure_count + 1
    IN  [failure_count |-> count,
         last_failure_time |-> t,
         state |-> IF count > failure_threshold THEN "open" ELSE cb.state]

record_failure(cb, t) ==
    LET count == cb.failure_count + 1
    IN  [failure_count |-> count,
         last_failure_time |-> t,
         state |-> IF count >= failure_threshold THEN "open" ELSE cb.state]

\* get_circuit_breaker with the registry rebuilt around the new breaker
get_circuit_breaker_rebuilds(cbs, provider) ==
    IF provider \in DOMAIN cbs
    THEN cbs
    ELSE [q \in {provider} |-> CircuitBreaker]

get_circuit_breaker(cbs, provider) ==
    IF provider \in DOMAIN cbs
    THEN cbs
    ELSE [q \in DOMAIN cbs \cup {provider} |->
            IF q = provider THEN CircuitBreaker ELSE cbs[q]]

(***************************************************************************)
(* ErrorHandler.execute_with_retry                                         *)
(*                                                                         *)
(* A call record holds the coroutine's locals (provider, attempt,          *)
(* last_error), where it is suspended (pc), how it ended (result), and     *)
(* history kept for the properties: invocations (how often operation() was *)
(* called), recorded (how often the call ran record_failure), kinds (the   *)
(* kind every failure so far was classified as, "mixed" when they differ)  *)
(* and rec_from (the breaker's state just before the call recorded its     *)
(* outcome).                                                               *)
(***************************************************************************)
Call(pc, provider) ==
    [pc |-> pc, provider |-> provider, attempt |-> 0, last_error |-> NoError,
     result |-> "", invocations |-> 0, recorded |-> 0, kinds |-> "none",
     rec_from |-> ""]

InFlight == BagToSet(calls)

\* the bag with call record r replaced by r2
Resume(r, r2) == (calls (-) SetToBag({r})) (+) SetToBag({r2})

\* the loop running to the largest max_retries of the table
loop_bound_of_rate_limit == retry_strategies[RATE_LIMIT].max_retries + 1

\* range(self.retry_strategies[ErrorType.UNKNOWN_ERROR].max_retries + 1)
loop_bound == retry_strategies[UNKNOWN_ERROR].max_retries + 1

note_kind(kinds, kind) ==
    IF kinds = "none" \/ kinds = kind THEN kind ELSE "mixed"

\* the test of line 232 with > for >=
retries_exhausted_late(attempt, retry_strategy) ==
    attempt > retry_strategy.max_retries

\* line 232:  if attempt >= retry_strategy.max_retries
retries_exhausted(attempt, retry_strategy) ==
    attempt >= retry_strategy.max_retries

\* A finished call's record is what its caller gets back.  The caller awaits
\* the coroutine directly, so it resumes in the same step of the event loop:
\* no other coroutine runs while an outcome is pending.
Outcomes == {r \in InFlight : r.pc \in {"returned", "raised"}}
OutcomePending == Outcomes # {}

\* lines 181-199: the breaker check, then the first  await operation()
ExecuteWithRetry(p) ==
    /\ ~OutcomePending
    /\ BagCardinality(calls) < MaxCalls
    /\ LET cbs == get_circuit_breaker(circuit_breakers, p)
           allowed == can_execute(cbs[p], now)
           cb == can_execute_effect(cbs[p], now)
       IN  /\ circuit_breakers' = [cbs EXCEPT ![p] = cb]
           /\ calls' = calls (+) SetToBag({
                IF ~allowed
                THEN [Call("raised", p) EXCEPT !.result = "circuit_open"]
                ELSE [Call("operation", p) EXCEPT !.invocations = 1]})
           /\ probes' = [probes EXCEPT ![p] =
                IF allowed /\ cb.state = "half-open" THEN @ + 1 ELSE @]
    /\ UNCHANGED now

\* lines 199-213: operation() returned
OperationReturns(r) ==
    /\ ~OutcomePending
    /\ r.pc = "operation"
    /\ LET p == r.provider
       IN  /\ circuit_breakers' =
                [circuit_breakers EXCEPT ![p] = record_success(@)]
           /\ calls' = Resume(r, [r EXCEPT !.pc = "returned",
                                           !.result = "result",
                                           !.rec_from = circuit_breakers[p].state])
           /\ probes' = [probes EXCEPT ![p] = 0]
    /\ UNCHANGED now

\* lines 215-250 (and 252-263 after the break): operation() raised error
OperationRaises(r, error) ==
    /\ ~OutcomePending
    /\ r.pc = "operation"
    /\ LET p == r.provider
           attempt == r.attempt
           error_type == error_types[error]
           retry_strategy == retry_strategies[error_type]
           kinds == note_kind(r.kinds, error_type)
       IN  IF retries_exhausted(attempt, retry_strategy)
           THEN \* record_failure(); break; record_failure(); raise last_error
                /\ circuit_breakers' =
                     [circuit_breakers EXCEPT
                        ![p] = record_failure(record_failure(@, now), now)]
                /\ calls' = Resume(r, [r EXCEPT !.pc = "raised",
                                                !.last_error = error,
                                                !.result = "error",
                                                !.kinds = kinds,
                                                !.recorded = @ + 2,
                                                !.rec_from = circuit_breakers[p].state])
                /\ probes' = [probes EXCEPT ![p] = 0]
           ELSE \* await asyncio.sleep(delay)
                /\ \E x \in JitterSamples : get_delay(retry_strategy, attempt, x) >= 0
                /\ calls' = Resume(r, [r EXCEPT !.pc = "sleep",
                                                !.last_error = error,
                                                !.kinds = kinds])
                /\ UNCHANGED <<circuit_breakers, probes>>
    /\ UNCHANGED now

\* asyncio.sleep(delay) returned: the next iteration of the loop, or, when
\* range() is exhausted, lines 252-263
SleepReturns(r) ==
    /\ ~OutcomePending
    /\ r.pc = "sleep"
    /\ LET p == r.provider
       IN  IF r.attempt + 1 < loop_bound
           THEN /\ calls' = Resume(r, [r EXCEPT !.pc = "operation",
                                                !.attempt = @ + 1,
                                                !.invocations = @ + 1])
                /\ UNCHANGED <<circuit_breakers, probes>>
           ELSE /\ circuit_breakers' =
                     [circuit_breakers EXCEPT ![p] = record_failure(@, now)]
                /\ calls' = Resume(r, [r EXCEPT !.pc = "raised",
                                                !.result = "error",
                                                !.recorded = @ + 1,
                                                !.rec_from = circuit_breakers[p].state])
                /\ probes' = [probes EXCEPT ![p] = 0]
    /\ UNCHANGED now

\* the exception a call that ended in "raised" hands to its caller: the
\* one of line 193 when the breaker blocked it, else last_error (line 263)
raised(r) ==
    IF r.result = "circuit_open" THEN circuit_open_error(r.provider)
    ELSE r.last_error

\* the caller has taken the result or the exception
CallEnds(r) ==
    /\ r.pc \in {"returned", "raised"}
    /\ calls' = calls (-) SetToBag({r})
    /\ UNCHANGED <<now, circuit_breakers, probes>>

\* time passes
Tick(d) ==
    /\ ~OutcomePending
    /\ now + d <= MaxTime
    /\ now' = now + d
    /\ UNCHANGED <<circuit_breakers, calls, probes>>

(***************************************************************************)
(* EnhancedConnectionManager                                               *)
(*                                                                         *)
(* connection ids are 1, 2, ... in the order connect() issues them, which  *)
(* is the insertion order of the connections dict.  ConnectionInfo's       *)
(* websocket is the peer of that id; connected_at is read by logging only  *)
(* and is left out.                                                        *)
(***************************************************************************)
heartbeat_interval == 30
max_failed_sends == 3

ConnectionIds == 1..MaxConnections

\* streak is history: the sends to this connection that have failed in a
\* row, whatever they raised, counted up to max_failed_sends
ConnectionInfo(session_id, t) ==
    [session_id |-> session_id, last_ping |-> t, failed_sends |-> 0,
     is_alive |-> TRUE, streak |-> 0]

failed_again(connection_info) ==
    [connection_info EXCEPT !.streak = Min(@ + 1, max_failed_sends)]

\* what  await websocket.send_text(...)  does: it returns, raises
\* WebSocketDisconnect, or raises another exception
SendOutcomes == {"ok", "disconnect", "error"}

Remove(f, x) == [y \in DOMAIN f \ {x} |-> f[y]]
Put(f, x, v) == [y \in DOMAIN f \cup {x} |-> IF y = x THEN v ELSE f[y]]

\* The manager's data: m.c the connections table, m.s the session index,
\* m.d the detached objects.
Manager == [c |-> connections, s |-> session_connections, d |-> detached]

\* the ConnectionInfo object of id, in the table or detached
info(m, id) == IF id \in DOMAIN m.c THEN m.c[id] ELSE m.d[id]

\* assign to the object of id
set_info(m, id, v) ==
    IF id \in DOMAIN m.c
    THEN [m EXCEPT !.c = [m.c EXCEPT ![id] = v]]
    ELSE [m EXCEPT !.d = Put(m.d, id, v)]

\* disconnect that removes the connection from the table only
disconnect_table_only(m, connection_id) ==
    IF connection_id \notin DOMAIN m.c
    THEN m
    ELSE [m EXCEPT !.c = Remove(m.c, connection_id),
                   !.d = Put(m.d, connection_id, m.c[connection_id])]

\* disconnect that takes the connection out of its session's set on the
\* first call and out of the table on the next
disconnect_in_two_calls(m, connection_id) ==
    IF connection_id \notin DOMAIN m.c
    THEN m
    ELSE LET session_id == m.c[connection_id].session_id
         IN  IF session_id \in DOMAIN m.s /\ connection_id \in m.s[session_id]
             THEN [m EXCEPT !.s =
                     IF m.s[session_id] = {connection_id}
                     THEN Remove(m.s, session_id)
                     ELSE [m.s EXCEPT ![session_id] = @ \ {connection_id}]]
             ELSE [m EXCEPT !.c = Remove(m.c, connection_id),
                            !.d = Put(m.d, connection_id, m.c[connection_id])]

\* disconnect that leaves the session's emptied set in the index
disconnect_keeps_empty_set(m, connection_id) ==
    IF connection_id \notin DOMAIN m.c
    THEN m
    ELSE LET connection_info == m.c[connection_id]
             session_id == connection_info.session_id
         IN  [c |-> Remove(m.c, connection_id),
              s |-> IF session_id \notin DOMAIN m.s THEN m.s
                    ELSE [m.s EXCEPT ![session_id] = @ \ {connection_id}],
              d |-> Put(m.d, connection_id, connection_info)]

\* lines 96-117
disconnect(m, connection_id) ==
    IF connection_id \notin DOMAIN m.c
    THEN m
    ELSE LET connection_info == m.c[connection_id]
             session_id == connection_info.session_id
             rest == IF session_id \in DOMAIN m.s
                     THEN m.s[session_id] \ {connection_id}
                     ELSE {}
         IN  [c |-> Remove(m.c, connection_id),
              s |-> IF session_id \notin DOMAIN m.s THEN m.s
                    ELSE IF rest = {} THEN Remove(m.s, session_id)
                    ELSE [m.s EXCEPT ![session_id] = rest],
              d |-> Put(m.d, connection_id, connection_info)]

\* for connection_id in ids: self.disconnect(connection_id, reason)
RECURSIVE disconnect_all(_, _)
disconnect_all(m, ids) ==
    IF ids = <<>> THEN m
    ELSE disconnect_all(disconnect(m, Head(ids)), Tail(ids))

\* the enumerations of a collection that holds every id twice
RECURSIVE Orders_with_repeats(_)
Orders_with_repeats(S) ==
    IF S = {} THEN {<<>>}
    ELSE UNION {{<<x, x>> \o t : t \in Orders_with_repeats(S \ {x})} : x \in S}

\* the orders in which list(a_set) can enumerate a set
RECURSIVE Orders(_)
Orders(S) ==
    IF S = {} THEN {<<>>}
    ELSE UNION {{<<x>> \o t : t \in Orders(S \ {x})} : x \in S}

\* a coroutine's return to its caller is taken in the same step of the loop
Returned(bag) == {r \in BagToSet(bag) : r.pc = "done"}
WsOutcomePending == Returned(broadcasts) # {} \/ Returned(sends) # {}

\* the ids whose ConnectionInfo a suspended coroutine holds
Held(bs, ss, hb) ==
    {r.connection_ids[r.i] : r \in {b \in BagToSet(bs) : b.pc = "sending"}}
    \cup {r.connection_id : r \in {x \in BagToSet(ss) : x.pc = "sending"}}
    \cup (IF hb.pc = "pinging" THEN {hb.connection_id} ELSE {})

\* the manager's data after a step: objects nobody holds are gone
Store(m, bs, ss, hb) ==
    /\ connections' = m.c
    /\ session_connections' = m.s
    /\ detached' = [id \in DOMAIN m.d \cap Held(bs, ss, hb) |-> m.d[id]]

\* lines 52-86: accept() returned
Connect(session_id) ==
    /\ ~WsOutcomePending
    /\ next_id < MaxConnections
    /\ LET connection_id == next_id + 1
           m == Manager
           c == Put(m.c, connection_id, ConnectionInfo(session_id, now))
           sets == IF session_id \notin DOMAIN m.s
                   THEN Put(m.s, session_id, {})
                   ELSE m.s
           s == [sets EXCEPT ![session_id] = @ \cup {connection_id}]
       IN  /\ next_id' = connection_id
           /\ background_tasks_started' = TRUE
           /\ Store([m EXCEPT !.c = c, !.s = s], broadcasts, sends, heartbeat)
    /\ UNCHANGED <<now, broadcasts, sends, heartbeat>>

\* connect that registers the connection although accept() raised
ConnectFails_registers(session_id) == Connect(session_id)

\* lines 63-64, 88-94: accept() raised, and connect() raises
ConnectFails(session_id) ==
    /\ ~WsOutcomePending
    /\ UNCHANGED <<now, wsVars>>

\* disconnect(connection_id) called by the route layer
Disconnect(connection_id) ==
    /\ ~WsOutcomePending
    /\ Store(disconnect(Manager, connection_id), broadcasts, sends, heartbeat)
    /\ UNCHANGED <<now, next_id, background_tasks_started, broadcasts, sends,
                   heartbeat>>

(***************************************************************************)
(* send_event: a record holds the locals of the coroutine; it is suspended *)
(* in  await websocket.send_text  for connection_ids[i], or done.          *)
(* attempts is history: the <<connection id, outcome>> of every send_text  *)
(* the coroutine has awaited.                                              *)
(***************************************************************************)
Broadcast(session_id, event, connection_ids) ==
    [pc |-> "sending", session_id |-> session_id, event |-> event,
     connection_ids |-> connection_ids, i |-> 0, successful_sends |-> 0,
     failed_connections |-> <<>>, returns |-> FALSE, attempts |-> <<>>]

\* the ids a broadcast set out to reach, and those whose send it has awaited
Targets(b) == {b.connection_ids[k] : k \in 1..Len(b.connection_ids)}
Attempted(b) == {b.attempts[k][1] : k \in 1..Len(b.attempts)}
Delivered(b) ==
    {b.attempts[k][1] : k \in {n \in 1..Len(b.attempts) : b.attempts[n][2] = "ok"}}

\* send_event_loop without the except clauses: a send that raises ends the
\* loop
RECURSIVE send_event_loop_gives_up(_, _, _)
send_event_loop_gives_up(b, m, j) ==
    IF \/ j > Len(b.connection_ids)
       \/ (b.attempts # <<>> /\ b.attempts[Len(b.attempts)][2] # "ok")
    THEN [b |-> [b EXCEPT !.pc = "done", !.i = j,
                          !.returns = (b.successful_sends > 0)],
          m |-> disconnect_all(m, b.failed_connections)]
    ELSE IF b.connection_ids[j] \notin DOMAIN m.c
    THEN send_event_loop_gives_up(
            [b EXCEPT !.failed_connections = Append(@, b.connection_ids[j])],
            m, j + 1)
    ELSE [b |-> [b EXCEPT !.i = j], m |-> m]

\* send_event_loop that returns whether no connection had to be removed
RECURSIVE send_event_loop_none_failed(_, _, _)
send_event_loop_none_failed(b, m, j) ==
    IF j > Len(b.connection_ids)
    THEN [b |-> [b EXCEPT !.pc = "done", !.i = j,
                          !.returns = (b.failed_connections = <<>>)],
          m |-> disconnect_all(m, b.failed_connections)]
    ELSE IF b.connection_ids[j] \notin DOMAIN m.c
    THEN send_event_loop_none_failed(
            [b EXCEPT !.failed_connections = Append(@, b.connection_ids[j])],
            m, j + 1)
    ELSE [b |-> [b EXCEPT !.i = j], m |-> m]

\* The loop of lines 156-208 from index j up to its next await, and lines
\* 209-222 when the list is exhausted: [b |-> the coroutine, m |-> the data]
RECURSIVE send_event_loop(_, _, _)
send_event_loop(b, m, j) ==
    IF j > Len(b.connection_ids)
    THEN [b |-> [b EXCEPT !.pc = "done", !.i = j,
                          !.returns = (b.successful_sends > 0)],
          m |-> disconnect_all(m, b.failed_connections)]
    ELSE IF b.connection_ids[j] \notin DOMAIN m.c
    THEN send_event_loop(
            [b EXCEPT !.failed_connections = Append(@, b.connection_ids[j])],
            m, j + 1)
    ELSE [b |-> [b EXCEPT !.i = j], m |-> m]

\* send_event that takes every connection of the table for its targets
send_event_to_all(session_id, event) ==
    /\ ~WsOutcomePending
    /\ IF session_id \notin DOMAIN session_connections
       THEN /\ broadcasts' = broadcasts (+) SetToBag(
                    {[Broadcast(session_id, event, <<>>) EXCEPT !.pc = "done"]})
            /\ UNCHANGED <<connections, session_connections, detached>>
       ELSE \E connection_ids \in Orders(DOMAIN connections) :
               LET n == send_event_loop(
                           Broadcast(session_id, event, connection_ids),
                           Manager, 1)
               IN  /\ broadcasts' = broadcasts (+) SetToBag({n.b})
                   /\ Store(n.m, broadcasts', sends, heartbeat)
    /\ UNCHANGED <<now, next_id, background_tasks_started, sends, heartbeat>>

\* lines 141-166: up to the first send
send_event(session_id, event) ==
    /\ ~WsOutcomePending
    /\ IF session_id \notin DOMAIN session_connections
       THEN /\ broadcasts' = broadcasts (+) SetToBag(
                    {[Broadcast(session_id, event, <<>>) EXCEPT !.pc = "done"]})
            /\ UNCHANGED <<connections, session_connections, detached>>
       ELSE \E connection_ids \in Orders(session_connections[session_id]) :
               LET n == send_event_loop(
                           Broadcast(session_id, event, connection_ids),
                           Manager, 1)
               IN  /\ broadcasts' = broadcasts (+) SetToBag({n.b})
                   /\ Store(n.m, broadcasts', sends, heartbeat)
    /\ UNCHANGED <<now, next_id, background_tasks_started, sends, heartbeat>>

\* send_event called while fewer than MaxBroadcasts calls are in progress
SendEvent(session_id, event) ==
    /\ BagCardinality(broadcasts) < MaxBroadcasts
    /\ send_event(session_id, event)

\* lines 166-208: send_text for connection_ids[i] has returned or raised
SendEventResumes(b, outcome) ==
    /\ ~WsOutcomePending
    /\ b.pc = "sending"
    /\ LET connection_id == b.connection_ids[b.i]
           sent_to == info(Manager, connection_id)
           connection_info == IF outcome = "ok"
                              THEN [sent_to EXCEPT !.streak = 0]
                              ELSE failed_again(sent_to)
           failed_sends == connection_info.failed_sends + 1
           tried == [b EXCEPT !.attempts =
                                  Append(@, <<connection_id, outcome>>)]
           sent == IF outcome = "ok"
                   THEN [b |-> [tried EXCEPT !.successful_sends = @ + 1],
                         m |-> set_info(Manager, connection_id,
                                  [connection_info EXCEPT !.failed_sends = 0])]
                   ELSE IF outcome = "disconnect"
                   THEN [b |-> [tried EXCEPT !.failed_connections =
                                                Append(@, connection_id)],
                         m |-> set_info(Manager, connection_id,
                                        connection_info)]
                   ELSE IF failed_sends >= max_failed_sends
                   THEN [b |-> [tried EXCEPT !.failed_connections =
                                                Append(@, connection_id)],
                         m |-> set_info(Manager, connection_id,
                                  [connection_info EXCEPT
                                      !.failed_sends = failed_sends,
                                      !.is_alive = FALSE])]
                   ELSE [b |-> tried,
                         m |-> set_info(Manager, connection_id,
                                  [connection_info EXCEPT
                                      !.failed_sends = failed_sends])]
           n == send_event_loop(sent.b, sent.m, b.i + 1)
       IN  /\ broadcasts' = (broadcasts (-) SetToBag({b})) (+) SetToBag({n.b})
           /\ Store(n.m, broadcasts', sends, heartbeat)
    /\ UNCHANGED <<now, next_id, background_tasks_started, sends, heartbeat>>

\* send_event has returned to its caller
SendEventEnds(b) ==
    /\ b.pc = "done"
    /\ broadcasts' = broadcasts (-) SetToBag({b})
    /\ UNCHANGED <<now, connections, session_connections, detached, next_id,
                   background_tasks_started, sends, heartbeat>>

(***************************************************************************)
(* send_to_connection and ping_connection                                  *)
(***************************************************************************)
\* send_to_connection that counts the failure and never disconnects
send_to_connection_result_counts_only(m, connection_id, outcome) ==
    LET sent_to == info(m, connection_id)
        connection_info == IF outcome = "ok"
                           THEN [sent_to EXCEPT !.streak = 0]
                           ELSE failed_again(sent_to)
    IN  IF outcome = "ok"
        THEN [m |-> set_info(m, connection_id,
                       [connection_info EXCEPT !.failed_sends = 0]),
              success |-> TRUE]
        ELSE [m |-> set_info(m, connection_id,
                       [connection_info EXCEPT !.failed_sends = @ + 1]),
              success |-> FALSE]

\* lines 240-259: what send_to_connection does when send_text has returned
\* or raised: [m |-> the data, success |-> what it returns]
send_to_connection_result(m, connection_id, outcome) ==
    LET sent_to == info(m, connection_id)
        connection_info == IF outcome = "ok"
                           THEN [sent_to EXCEPT !.streak = 0]
                           ELSE failed_again(sent_to)
        failed_sends == connection_info.failed_sends + 1
        counted == set_info(m, connection_id,
                      [connection_info EXCEPT !.failed_sends = failed_sends])
    IN  IF outcome = "ok"
        THEN [m |-> set_info(m, connection_id,
                       [connection_info EXCEPT !.failed_sends = 0]),
              success |-> TRUE]
        ELSE [m |-> IF failed_sends >= max_failed_sends
                    THEN disconnect(counted, connection_id)
                    ELSE counted,
              success |-> FALSE]

\* ping_connection that stamps last_ping whatever send_to_connection returned
ping_result_always(m, connection_id, success, t) ==
    IF connection_id \in DOMAIN m.c
    THEN [m EXCEPT !.c = [m.c EXCEPT ![connection_id].last_ping = t]]
    ELSE m

\* lines 303-308: ping_connection after send_to_connection has returned
ping_result(m, connection_id, success, t) ==
    IF success /\ connection_id \in DOMAIN m.c
    THEN [m EXCEPT !.c = [m.c EXCEPT ![connection_id].last_ping = t]]
    ELSE m

\* lines 235-241 (called from ping_connection when ping is true)
SendToConnection(connection_id, ping) ==
    /\ ~WsOutcomePending
    /\ BagCardinality(sends) < MaxSends
    /\ sends' = sends (+) SetToBag({
            [pc |-> IF connection_id \in DOMAIN connections
                    THEN "sending" ELSE "done",
             connection_id |-> connection_id, ping |-> ping,
             returns |-> FALSE]})
    /\ UNCHANGED <<now, connections, session_connections, detached, next_id,
                   background_tasks_started, broadcasts, heartbeat>>

SendToConnectionResumes(x, outcome) ==
    /\ ~WsOutcomePending
    /\ x.pc = "sending"
    /\ LET sent == send_to_connection_result(Manager, x.connection_id, outcome)
           m == IF x.ping
                THEN ping_result(sent.m, x.connection_id, sent.success, now)
                ELSE sent.m
       IN  /\ sends' = (sends (-) SetToBag({x})) (+) SetToBag(
                    {[x EXCEPT !.pc = "done", !.returns = sent.success]})
           /\ Store(m, broadcasts, sends', heartbeat)
    /\ UNCHANGED <<now, next_id, background_tasks_started, broadcasts,
                   heartbeat>>

SendToConnectionEnds(x) ==
    /\ x.pc = "done"
    /\ sends' = sends (-) SetToBag({x})
    /\ UNCHANGED <<now, connections, session_connections, detached, next_id,
                   background_tasks_started, broadcasts, heartbeat>>

(***************************************************************************)
(* _heartbeat_monitor and _cleanup_stale_connections                       *)
(*                                                                         *)
(* The pass iterates over self.connections.items() while it awaits the     *)
(* pings.  A dict iterator visits the entries in insertion order, raises   *)
(* RuntimeError when the size of the dict differs from the size at the     *)
(* start, and raises it too when it finds an entry after it has yielded as *)
(* many as the dict held at the start.  used is that size, yielded the     *)
(* entries yielded, last the last id yielded.                              *)
(***************************************************************************)
HeartbeatSleeps ==
    [pc |-> "sleep", t |-> 0, used |-> 0, yielded |-> 0, last |-> 0,
     connection_id |-> 0, stale_connections |-> <<>>]

\* The for loop of lines 355-362 up to its next await, then lines 365-366;
\* RuntimeError ends the pass in the handler of line 375.
RECURSIVE heartbeat_loop(_, _)
heartbeat_loop(h, m) ==
    LET later == {id \in DOMAIN m.c : id > h.last}
        connection_id == CHOOSE id \in later : \A other \in later : id <= other
    IN  IF Cardinality(DOMAIN m.c) # h.used
        THEN [h |-> HeartbeatSleeps, m |-> m]
        ELSE IF later = {}
        THEN [h |-> HeartbeatSleeps,
              m |-> disconnect_all(m, h.stale_connections)]
        ELSE IF h.yielded = h.used
        THEN [h |-> HeartbeatSleeps, m |-> m]
        ELSE IF (h.t - m.c[connection_id].last_ping) > heartbeat_interval * 2
        THEN [h |-> [h EXCEPT !.pc = "pinging", !.last = connection_id,
                              !.yielded = @ + 1,
                              !.connection_id = connection_id],
              m |-> m]
        ELSE heartbeat_loop([h EXCEPT !.last = connection_id,
                                      !.yielded = @ + 1], m)

\* asyncio.sleep(self.heartbeat_interval) returned
HeartbeatWakes ==
    /\ ~WsOutcomePending
    /\ background_tasks_started
    /\ heartbeat.pc = "sleep"
    /\ LET n == heartbeat_loop(
                    [HeartbeatSleeps EXCEPT
                        !.t = now, !.used = Cardinality(DOMAIN connections)],
                    Manager)
       IN  /\ heartbeat' = n.h
           /\ Store(n.m, broadcasts, sends, heartbeat')
    /\ UNCHANGED <<now, next_id, background_tasks_started, broadcasts, sends>>

\* the send_text of the pass's ping_connection has returned or raised
HeartbeatResumes(outcome) ==
    /\ ~WsOutcomePending
    /\ heartbeat.pc = "pinging"
    /\ LET connection_id == heartbeat.connection_id
           sent == send_to_connection_result(Manager, connection_id, outcome)
           m == ping_result(sent.m, connection_id, sent.success, now)
           h == IF sent.success THEN heartbeat
                ELSE [heartbeat EXCEPT
                        !.stale_connections = Append(@, connection_id)]
           n == heartbeat_loop([h EXCEPT !.pc = "sleep"], m)
       IN  /\ heartbeat' = n.h
           /\ Store(n.m, broadcasts, sends, heartbeat')
    /\ UNCHANGED <<now, next_id, background_tasks_started, broadcasts, sends>>

\* lines 310-312: len(self.session_connections.get(session_id, set()))
get_session_connections(index, session_id) ==
    Cardinality(IF session_id \in DOMAIN index THEN index[session_id] ELSE {})

\* lines 385-394: one pass of _cleanup_stale_connections
Cleanup ==
    /\ ~WsOutcomePending
    /\ background_tasks_started
    /\ LET empty_sessions ==
              {session_id \in DOMAIN session_connections :
                  session_connections[session_id] = {}}
       IN  session_connections' =
              [session_id \in DOMAIN session_connections \ empty_sessions |->
                  session_connections[session_id]]
    /\ UNCHANGED <<now, connections, detached, next_id,
                   background_tasks_started, broadcasts, sends, heartbeat>>

\* time passes
TickWS(d) ==
    /\ ~WsOutcomePending
    /\ now + d <= MaxTime
    /\ now' = now + d
    /\ UNCHANGED wsVars

(***************************************************************************)
(* Specifications                                                          *)
(***************************************************************************)
(***************************************************************************)
(* AdapterRegistry.  An adapter class is named by its class name; an       *)
(* adapter instance holds its class and the config it was made with.       *)
(***************************************************************************)
\* _register_default_adapters
default_adapters ==
    [provider_name \in {"google", "groq"} |->
        IF provider_name = "google" THEN "GoogleDataStudioAdapter"
        ELSE "GroqAdapter"]

\* AdapterRegistry.__init__
AdapterRegistryInit ==
    /\ adapters = default_adapters
    /\ instances = <<>>

\* no function has been called
NoCall == [fn |-> "none"]

\* ErrorHandler() and EnhancedConnectionManager() as constructed
Constructed ==
    /\ now = 0
    /\ circuit_breakers = <<>>
    /\ calls = EmptyBag
    /\ probes = [p \in AllProviders |-> 0]
    /\ service_failures = [p \in AllProviders |-> 0]
    /\ connections = <<>>
    /\ session_connections = <<>>
    /\ detached = <<>>
    /\ next_id = 0
    /\ background_tasks_started = FALSE
    /\ broadcasts = EmptyBag
    /\ sends = EmptyBag
    /\ heartbeat = HeartbeatSleeps
    /\ issued = <<>>
    /\ received = <<>>

\* no stream_with_error_handling generator has been made
NoGenerator == [pc |-> "none"]

\* SessionManager.__init__
SessionManagerInit ==
    /\ sessions = <<>>
    /\ max_sessions = 1000

Init ==
    /\ Constructed
    /\ input = NoCall
    /\ output = NoCall
    /\ generator = NoGenerator
    /\ SessionManagerInit
    /\ AdapterRegistryInit

NextEH ==
    \/ \E p \in Providers : ExecuteWithRetry(p) /\ UNCHANGED <<service_failures, wsVars, logVars, libVars>>
    \/ \E r \in InFlight : OperationReturns(r) /\ UNCHANGED <<service_failures, wsVars, logVars, libVars>>
    \/ \E r \in InFlight, error \in OperationErrors :
            OperationRaises(r, error) /\ UNCHANGED <<service_failures, wsVars, logVars, libVars>>
    \/ \E r \in InFlight : SleepReturns(r) /\ UNCHANGED <<service_failures, wsVars, logVars, libVars>>
    \/ \E r \in InFlight : CallEnds(r) /\ UNCHANGED <<service_failures, wsVars, logVars, libVars>>
    \/ \E d \in TickSteps : Tick(d) /\ UNCHANGED <<service_failures, wsVars, logVars, libVars>>

\* the error handler under concurrent execute_with_retry calls
SpecEH == Init /\ [][NextEH]_vars

\* the connection manager: connects, disconnects, broadcasts, pings and the
\* background tasks, interleaved at their awaits
NextWS ==
    \/ \E session_id \in Sessions : Connect(session_id) /\ UNCHANGED <<ehVars, logVars, libVars>>
    \/ \E session_id \in Sessions : ConnectFails(session_id) /\ UNCHANGED <<ehVars, logVars, libVars>>
    \/ \E id \in ConnectionIds : Disconnect(id) /\ UNCHANGED <<ehVars, logVars, libVars>>
    \/ \E session_id \in Sessions, event \in Events :
            SendEvent(session_id, event) /\ UNCHANGED <<ehVars, logVars, libVars>>
    \/ \E b \in BagToSet(broadcasts), outcome \in SendOutcomes :
            SendEventResumes(b, outcome) /\ UNCHANGED <<ehVars, logVars, libVars>>
    \/ \E b \in BagToSet(broadcasts) : SendEventEnds(b) /\ UNCHANGED <<ehVars, logVars, libVars>>
    \/ \E id \in ConnectionIds, ping \in BOOLEAN :
            SendToConnection(id, ping) /\ UNCHANGED <<ehVars, logVars, libVars>>
    \/ \E x \in BagToSet(sends), outcome \in SendOutcomes :
            SendToConnectionResumes(x, outcome) /\ UNCHANGED <<ehVars, logVars, libVars>>
    \/ \E x \in BagToSet(sends) : SendToConnectionEnds(x) /\ UNCHANGED <<ehVars, logVars, libVars>>
    \/ HeartbeatWakes /\ UNCHANGED <<ehVars, logVars, libVars>>
    \/ \E outcome \in SendOutcomes : HeartbeatResumes(outcome) /\ UNCHANGED <<ehVars, logVars, libVars>>
    \/ Cleanup /\ UNCHANGED <<ehVars, logVars, libVars>>
    \/ \E d \in TickSteps : TickWS(d) /\ UNCHANGED <<ehVars, logVars, libVars>>

SpecWS == Init /\ [][NextWS]_vars

(***************************************************************************)
(* connect seen from its caller: output holds what the latest connect call *)
(* gave back, the connection id or the exception of accept().              *)
(***************************************************************************)
ConnectFrame == UNCHANGED <<ehVars, logVars, generator, smVars, regVars>>

\* await manager.connect(websocket, session_id) with accept() returning
ConnectReturns(session_id) ==
    /\ Connect(session_id)
    /\ input' = [session_id |-> session_id]
    /\ output' = [fn |-> "connect", raised |-> FALSE, returns |-> next_id']
    /\ ConnectFrame

\* await manager.connect(websocket, session_id) with accept() raising
ConnectRaises(session_id) ==
    /\ ConnectFails(session_id)
    /\ input' = [session_id |-> session_id]
    /\ output' = [fn |-> "connect", raised |-> TRUE, returns |-> 0]
    /\ ConnectFrame

NextConnect ==
    \/ \E session_id \in Sessions : ConnectReturns(session_id)
    \/ \E session_id \in Sessions : ConnectRaises(session_id)
    \/ \E id \in ConnectionIds : Disconnect(id) /\ UNCHANGED <<ehVars, logVars, libVars>>
    \/ \E id \in ConnectionIds :
            SendToConnection(id, FALSE) /\ UNCHANGED <<ehVars, logVars, libVars>>
    \/ \E x \in BagToSet(sends), outcome \in SendOutcomes :
            SendToConnectionResumes(x, outcome) /\ UNCHANGED <<ehVars, logVars, libVars>>
    \/ \E x \in BagToSet(sends) : SendToConnectionEnds(x) /\ UNCHANGED <<ehVars, logVars, libVars>>
    \/ \E d \in TickSteps : TickWS(d) /\ UNCHANGED <<ehVars, logVars, libVars>>

SpecConnect == Init /\ [][NextConnect]_vars

\* Calls for several providers, with operations that return, raise an
\* error that is not retried or raise one that is.
ProviderErrors == {err_auth, err_timeout}

NextProviders ==
    \/ \E p \in AllProviders :
            ExecuteWithRetry(p) /\ UNCHANGED <<service_failures, wsVars, logVars, libVars>>
    \/ \E r \in InFlight :
            OperationReturns(r) /\ UNCHANGED <<service_failures, wsVars, logVars, libVars>>
    \/ \E r \in InFlight, error \in ProviderErrors :
            OperationRaises(r, error)
            /\ UNCHANGED <<service_failures, wsVars, logVars, libVars>>
    \/ \E r \in InFlight :
            SleepReturns(r) /\ UNCHANGED <<service_failures, wsVars, logVars, libVars>>
    \/ \E r \in InFlight :
            CallEnds(r) /\ UNCHANGED <<service_failures, wsVars, logVars, libVars>>
    \/ \E d \in TickSteps :
            Tick(d) /\ UNCHANGED <<service_failures, wsVars, logVars, libVars>>

SpecProviders == Init /\ [][NextProviders]_vars

(***************************************************************************)
(* Calls that are awaited: each provider's caller starts its next          *)
(* execute_with_retry call after it has taken the outcome of the one       *)
(* before, and calls for different providers overlap.  Every invocation of *)
(* the operation and every asyncio.sleep comes back: the event loop runs a *)
(* coroutine that is ready, and a finished call's outcome is taken.        *)
(***************************************************************************)
Running(p) ==
    {r \in InFlight : r.provider = p /\ r.pc \in {"operation", "sleep"}}

EHFrame == UNCHANGED <<service_failures, wsVars, logVars, libVars>>

\* the call for p moves on: operation() returns or raises, or the sleep ends
CallResumes(p) ==
    \E r \in Running(p) :
        \/ OperationReturns(r)
        \/ \E error \in ProviderErrors : OperationRaises(r, error)
        \/ SleepReturns(r)

NextAwaited ==
    \/ \E p \in AllProviders :
            /\ \A r \in InFlight : r.provider # p
            /\ ExecuteWithRetry(p)
            /\ EHFrame
    \/ \E r \in InFlight : OperationReturns(r) /\ EHFrame
    \/ \E r \in InFlight, error \in ProviderErrors :
            OperationRaises(r, error) /\ EHFrame
    \/ \E r \in InFlight : SleepReturns(r) /\ EHFrame
    \/ \E r \in InFlight : CallEnds(r) /\ EHFrame
    \/ \E d \in TickSteps : Tick(d) /\ EHFrame

SpecAwaited ==
    /\ Init
    /\ [][NextAwaited]_vars
    /\ \A p \in AllProviders : SF_vars(CallResumes(p) /\ EHFrame)
    /\ WF_vars(\E r \in InFlight : CallEnds(r) /\ EHFrame)

\* Calls whose operation is itself a guarded call for the same provider:
\* it returns, raises an error that is not retried, or raises what the
\* inner call raised when the breaker blocked it.
NextNested ==
    \/ \E p \in Providers :
            ExecuteWithRetry(p) /\ UNCHANGED <<service_failures, wsVars, logVars, libVars>>
    \/ \E r \in InFlight :
            OperationReturns(r) /\ UNCHANGED <<service_failures, wsVars, logVars, libVars>>
    \/ \E r \in InFlight, error \in {err_auth} \cup NestedErrors :
            OperationRaises(r, error)
            /\ UNCHANGED <<service_failures, wsVars, logVars, libVars>>
    \/ \E r \in InFlight :
            SleepReturns(r) /\ UNCHANGED <<service_failures, wsVars, logVars, libVars>>
    \/ \E r \in InFlight :
            CallEnds(r) /\ UNCHANGED <<service_failures, wsVars, logVars, libVars>>
    \/ \E d \in TickSteps :
            Tick(d) /\ UNCHANGED <<service_failures, wsVars, logVars, libVars>>

SpecNested == Init /\ [][NextNested]_vars

\* A producer that passes numbered events to send_event, each call awaited
\* before the next, while connections come and go.
Subscribe(session_id) ==
    /\ Connect(session_id)
    /\ received' = Put(received, next_id + 1,
                       [session_id |-> session_id, events |-> <<>>])
    /\ UNCHANGED <<issued, libVars>>

Produce(session_id) ==
    /\ Len(issued) < MaxEvents
    /\ send_event(session_id, Len(issued) + 1)
    /\ issued' = Append(issued, session_id)
    /\ UNCHANGED <<received, libVars>>

\* send_text returned: the peer has the event
Deliver(b, outcome) ==
    /\ SendEventResumes(b, outcome)
    /\ received' =
          IF outcome = "ok"
          THEN [received EXCEPT ![b.connection_ids[b.i]].events =
                                    Append(@, b.event)]
          ELSE received
    /\ UNCHANGED <<issued, libVars>>

NextProducer ==
    \/ \E session_id \in Sessions : Subscribe(session_id) /\ UNCHANGED ehVars
    \/ \E id \in ConnectionIds : Disconnect(id) /\ UNCHANGED <<ehVars, logVars, libVars>>
    \/ \E session_id \in Sessions :
            /\ broadcasts = EmptyBag
            /\ Produce(session_id)
            /\ UNCHANGED ehVars
    \/ \E b \in BagToSet(broadcasts), outcome \in SendOutcomes :
            Deliver(b, outcome) /\ UNCHANGED ehVars
    \/ \E b \in BagToSet(broadcasts) :
            SendEventEnds(b) /\ UNCHANGED <<ehVars, logVars, libVars>>

SpecProducer == Init /\ [][NextProducer]_vars

\* Several producers: send_event calls that overlap, while connections
\* come and go.
NextFanOut ==
    \/ \E session_id \in Sessions :
            Connect(session_id) /\ UNCHANGED <<ehVars, logVars, libVars>>
    \/ \E id \in ConnectionIds : Disconnect(id) /\ UNCHANGED <<ehVars, logVars, libVars>>
    \/ \E session_id \in Sessions, event \in Events :
            /\ BagCardinality(broadcasts) < MaxOverlap
            /\ send_event(session_id, event)
            /\ UNCHANGED <<ehVars, logVars, libVars>>
    \/ \E b \in BagToSet(broadcasts), outcome \in SendOutcomes :
            SendEventResumes(b, outcome) /\ UNCHANGED <<ehVars, logVars, libVars>>
    \/ \E b \in BagToSet(broadcasts) :
            SendEventEnds(b) /\ UNCHANGED <<ehVars, logVars, libVars>>

SpecFanOut == Init /\ [][NextFanOut]_vars

Next == NextEH \/ NextWS

Spec == Init /\ [][Next]_vars

\* The scenario of operations that fail with service errors or succeed:
\* service_failures counts, up to the breaker's threshold, the calls in a row
\* that ended by raising such an error.
ServiceErrors == {error \in OperationErrors : status_types[error] = SERVICE_ERROR}

note_outcome(count, r) ==
    IF r.result = "error" /\ r.last_error \in ServiceErrors
    THEN Min(count + 1, failure_threshold)
    ELSE IF r.result = "circuit_open" THEN count ELSE 0

\* the count after a step: a step that ends a call yields its outcome
CountOutcome ==
    service_failures' =
        [p \in DOMAIN service_failures |->
            IF Outcomes = {} /\ \E r \in Outcomes' : r.provider = p
            THEN note_outcome(service_failures[p],
                              CHOOSE r \in Outcomes' : r.provider = p)
            ELSE service_failures[p]]

NextServiceErrors ==
    \/ \E p \in Providers : ExecuteWithRetry(p) /\ CountOutcome /\ UNCHANGED <<wsVars, logVars, libVars>>
    \/ \E r \in InFlight : OperationReturns(r) /\ CountOutcome /\ UNCHANGED <<wsVars, logVars, libVars>>
    \/ \E r \in InFlight, error \in ServiceErrors :
            OperationRaises(r, error) /\ CountOutcome /\ UNCHANGED <<wsVars, logVars, libVars>>
    \/ \E r \in InFlight : SleepReturns(r) /\ CountOutcome /\ UNCHANGED <<wsVars, logVars, libVars>>
    \/ \E r \in InFlight : CallEnds(r) /\ CountOutcome /\ UNCHANGED <<wsVars, logVars, libVars>>
    \/ \E d \in TickSteps : Tick(d) /\ CountOutcome /\ UNCHANGED <<wsVars, logVars, libVars>>

SpecServiceErrors == Init /\ [][NextServiceErrors]_vars

(***************************************************************************)
(* classify_error and create_error_event called on their own.  The error   *)
(* is an exception whose text is a few phrases separated by blanks; the    *)
(* input keeps the phrases, str(error) spells them out.                    *)
(***************************************************************************)
MaxPhrases == 2         \* phrases in an error's text

Phrases == {"Timeout", "TIMED OUT", "Rate Limit", "too many requests", "Auth", "UNAUTHORIZED", "Network", "CONNECTION", "boom"}

spelled(f) ==
      CASE f = "Timeout" -> <<"T","i","m","e","o","u","t">>
        [] f = "TIMED OUT" -> <<"T","I","M","E","D"," ","O","U","T">>
        [] f = "Rate Limit" -> <<"R","a","t","e"," ","L","i","m","i","t">>
        [] f = "too many requests" -> <<"t","o","o"," ","m","a","n","y"," ","r","e","q","u","e","s","t","s">>
        [] f = "Auth" -> <<"A","u","t","h">>
        [] f = "UNAUTHORIZED" -> <<"U","N","A","U","T","H","O","R","I","Z","E","D">>
        [] f = "Network" -> <<"N","e","t","w","o","r","k">>
        [] f = "CONNECTION" -> <<"C","O","N","N","E","C","T","I","O","N">>
        [] f = "boom" -> <<"b","o","o","m">>

\* what the phrase says the failure was
phrase_kind(f) ==
      CASE f = "Timeout" -> TIMEOUT
        [] f = "TIMED OUT" -> TIMEOUT
        [] f = "Rate Limit" -> RATE_LIMIT
        [] f = "too many requests" -> RATE_LIMIT
        [] f = "Auth" -> AUTH_ERROR
        [] f = "UNAUTHORIZED" -> AUTH_ERROR
        [] f = "Network" -> NETWORK_ERROR
        [] f = "CONNECTION" -> NETWORK_ERROR
        [] f = "boom" -> UNKNOWN_ERROR

RECURSIVE str(_)
str(phrases) ==
    IF phrases = <<>> THEN <<>>
    ELSE IF Len(phrases) = 1 THEN spelled(phrases[1])
    ELSE spelled(phrases[1]) \o <<" ">> \o str(Tail(phrases))

Texts == UNION {[1..n -> Phrases] : n \in 0..MaxPhrases}

\* HTTP status codes; 0 stands for None
StatusCodes == {0, 200, 400, 401, 403, 404, 429, 500, 503}

Panes == {"pane-1", "pane-2"}

Inputs == [phrases : Texts, status_code : StatusCodes, pane_id : Panes]

InitClassify ==
    /\ Constructed
    /\ input \in Inputs
    /\ output = NoCall
    /\ generator = NoGenerator
    /\ SessionManagerInit
    /\ AdapterRegistryInit

\* error_handler.classify_error(error, status_code)
ClassifyError ==
    /\ output = NoCall
    /\ output' = [fn |-> "classify_error",
                  returns |-> classify_error(str(input.phrases),
                                             input.status_code)]
    /\ UNCHANGED <<now, ehVars, wsVars, logVars, input, generator, smVars,
                   regVars>>

\* error_handler.create_error_event(error, pane_id, status_code)
CreateErrorEvent ==
    /\ output = NoCall
    /\ output' = [fn |-> "create_error_event",
                  returns |-> create_error_event(str(input.phrases),
                                                 input.pane_id,
                                                 input.status_code)]
    /\ UNCHANGED <<now, ehVars, wsVars, logVars, input, generator, smVars,
                   regVars>>

NextClassify ==
    \/ ClassifyError
    \/ CreateErrorEvent

SpecClassify == InitClassify /\ [][NextClassify]_vars

(***************************************************************************)
(* LLMAdapter.stream_with_error_handling: an async generator around the    *)
(* adapter's stream().  A step is what the generator runs when its         *)
(* consumer asks for the next event: it asks the adapter's stream for one, *)
(* and the stream yields an event, raises an exception or ends.            *)
(***************************************************************************)
MaxStream == 2          \* events the adapter's stream yields

StreamEvent(type, pane_id, data) ==
    [type |-> type, pane_id |-> pane_id, data |-> data]

\* the events an adapter's stream yields
AdapterEvents ==
    {StreamEvent("token", p, [token |-> "t", position |-> 0]) : p \in Panes}
    \cup {StreamEvent("final", p, [content |-> "t", finish_reason |-> "stop"]) :
            p \in Panes}

\* the exceptions an adapter's stream raises, as the phrases of their text
StreamErrors == {<<"Timeout">>, <<"boom">>}

\* pulled: the events the adapter's stream has yielded; yielded: the events
\* the generator has yielded; failed: the adapter's stream has raised
Generator(pane_id) ==
    [pc |-> "created", pane_id |-> pane_id, pulled |-> <<>>,
     yielded |-> <<>>, failed |-> FALSE]

\* the stream's exception goes on to the consumer
stream_failed_reraises(g, phrases) ==
    [g EXCEPT !.pc = "raised", !.failed = TRUE]

\* lines 142-156: the except clause, up to  yield error_event
stream_failed(g, phrases) ==
    [g EXCEPT !.pc = "error_yielded",
              !.failed = TRUE,
              !.yielded = Append(@, create_error_event(str(phrases),
                                                       g.pane_id, 0))]

InitStream ==
    /\ Constructed
    /\ input = NoCall
    /\ output = NoCall
    /\ generator \in {Generator(pane_id) : pane_id \in Panes}
    /\ SessionManagerInit
    /\ AdapterRegistryInit

\* lines 139-140: the adapter's stream yields, the generator yields it on
StreamYields(event) ==
    /\ generator.pc \in {"created", "suspended"}
    /\ Len(generator.pulled) < MaxStream
    /\ generator' = [generator EXCEPT !.pc = "suspended",
                                      !.pulled = Append(@, event),
                                      !.yielded = Append(@, event)]
    /\ UNCHANGED <<now, ehVars, wsVars, logVars, callVars, smVars, regVars>>

\* lines 139, 142-156: the adapter's stream raises
StreamRaises(phrases) ==
    /\ generator.pc \in {"created", "suspended"}
    /\ generator' = stream_failed(generator, phrases)
    /\ UNCHANGED <<now, ehVars, wsVars, logVars, callVars, smVars, regVars>>

\* line 139: the adapter's stream is exhausted; or the generator is resumed
\* after line 156: either way the generator returns
StreamEnds ==
    /\ generator.pc \in {"created", "suspended", "error_yielded"}
    /\ generator' = [generator EXCEPT !.pc = "ended"]
    /\ UNCHANGED <<now, ehVars, wsVars, logVars, callVars, smVars, regVars>>

NextStream ==
    \/ \E event \in AdapterEvents : StreamYields(event)
    \/ \E phrases \in StreamErrors : StreamRaises(phrases)
    \/ StreamEnds

SpecStream == InitStream /\ [][NextStream]_vars

(***************************************************************************)
(* CircuitBreaker on its own: the methods of one provider's breaker called *)
(* in any order, as any caller of the class may call them.                 *)
(***************************************************************************)
MaxFailures == 7        \* record_failure() is called while failure_count is below this

BreakerFrame ==
    UNCHANGED <<calls, probes, service_failures, wsVars, logVars, libVars>>

\* self.get_circuit_breaker(provider)
GetCircuitBreaker(p) ==
    /\ circuit_breakers' = get_circuit_breaker(circuit_breakers, p)
    /\ UNCHANGED now
    /\ BreakerFrame

\* circuit_breaker.can_execute()
CanExecute(p) ==
    /\ p \in DOMAIN circuit_breakers
    /\ circuit_breakers' =
         [circuit_breakers EXCEPT ![p] = can_execute_effect(@, now)]
    /\ UNCHANGED now
    /\ BreakerFrame

\* circuit_breaker.record_success()
RecordSuccess(p) ==
    /\ p \in DOMAIN circuit_breakers
    /\ circuit_breakers' = [circuit_breakers EXCEPT ![p] = record_success(@)]
    /\ UNCHANGED now
    /\ BreakerFrame

\* circuit_breaker.record_failure()
RecordFailure(p) ==
    /\ p \in DOMAIN circuit_breakers
    /\ circuit_breakers[p].failure_count < MaxFailures
    /\ circuit_breakers' =
         [circuit_breakers EXCEPT ![p] = record_failure(@, now)]
    /\ UNCHANGED now
    /\ BreakerFrame

NextBreaker ==
    \/ \E p \in Providers : GetCircuitBreaker(p)
    \/ \E p \in Providers : CanExecute(p)
    \/ \E p \in Providers : RecordSuccess(p)
    \/ \E p \in Providers : RecordFailure(p)
    \/ \E d \in TickSteps \cup {1} :
            Tick(d) /\ UNCHANGED <<service_failures, wsVars, logVars, libVars>>

SpecBreaker == Init /\ [][NextBreaker]_vars

(***************************************************************************)
(* RetryStrategy.get_delay called on its own, for the strategies of the    *)
(* handler's table and others a caller can construct.                      *)
(***************************************************************************)
MaxAttempt == 7         \* the largest attempt passed to get_delay

\* random.random() in thousandths
RandomSamples == {0, 1, 500, 999}

Strategies ==
    LET table == {retry_strategies[k] : k \in ErrorType}
        built == table \cup {[RetryStrategy(3, 1000, 60000)
                                EXCEPT !.exponential_base = b] : b \in {1, 3}}
    IN  {[strategy EXCEPT !.jitter = j] : strategy \in built, j \in BOOLEAN}

InitDelay ==
    /\ Constructed
    /\ input \in [strategy : Strategies, attempt : 0..MaxAttempt,
                   random : RandomSamples]
    /\ output = NoCall
    /\ generator = NoGenerator
    /\ SessionManagerInit
    /\ AdapterRegistryInit

\* strategy.get_delay(attempt)
GetDelay ==
    /\ output = NoCall
    /\ output' = [fn |-> "get_delay",
                  returns |-> get_delay(input.strategy, input.attempt,
                                        input.random)]
    /\ UNCHANGED <<now, ehVars, wsVars, logVars, input, generator, smVars,
                   regVars>>

NextDelay == GetDelay

SpecDelay == InitDelay /\ [][NextDelay]_vars

(***************************************************************************)
(* SessionManager.  A Session holds id, status, updated_at and panes; a    *)
(* ChatPane holds id and messages.  Session.name and created_at and the    *)
(* panes' model_info and metrics are read by no method and are left out.   *)
(* Every method runs without awaiting: one step each.                      *)
(***************************************************************************)
MaxPanes == 2           \* panes added to one session
MaxMessages == 1        \* messages added to one pane
SmallLimit == 1         \* a max_sessions that a few sessions exceed

Uuids == {"u1"}         \* what str(uuid4()) returns
SessionIds == {"s1"} \cup Uuids
Messages == {"hello"}

None == [is_none |-> TRUE]

Session(session_id, t) ==
    [id |-> session_id, status |-> "active", updated_at |-> t, panes |-> <<>>]

ChatPane(pane_id) == [id |-> pane_id, messages |-> <<>>]

\* the position of the key in the dict, 0 when it is not a key
position(ss, session_id) ==
    IF \E i \in 1..Len(ss) : ss[i].id = session_id
    THEN CHOOSE i \in 1..Len(ss) : ss[i].id = session_id
    ELSE 0

\* the dict without the entries whose keys are in ids
RECURSIVE without(_, _)
without(ss, ids) ==
    IF ss = <<>> THEN <<>>
    ELSE IF Head(ss).id \in ids THEN without(Tail(ss), ids)
    ELSE <<Head(ss)>> \o without(Tail(ss), ids)

\* self.sessions.get(session_id)
get_session(ss, session_id) ==
    IF position(ss, session_id) = 0 THEN None
    ELSE ss[position(ss, session_id)]

\* sorted(self.sessions.values(), key=lambda s: s.updated_at): positions in
\* the dict, oldest first; sorted() keeps the dict's order among equals
sessions_by_age(ss) ==
    CHOOSE order \in [1..Len(ss) -> 1..Len(ss)] :
        /\ \A i, j \in 1..Len(ss) : i # j => order[i] # order[j]
        /\ \A i, j \in 1..Len(ss) :
              i < j => \/ ss[order[i]].updated_at < ss[order[j]].updated_at
                       \/ /\ ss[order[i]].updated_at = ss[order[j]].updated_at
                          /\ order[i] < order[j]

\* the loop of lines 257-263 without the test of session.status
RECURSIVE sessions_to_remove_any(_, _, _, _, _)
sessions_to_remove_any(ss, limit, order, k, collected) ==
    IF k > Len(ss) THEN collected
    ELSE IF 10 * (Len(ss) - Cardinality(collected)) <= 8 * limit THEN collected
    ELSE sessions_to_remove_any(ss, limit, order, k + 1,
                                collected \cup {ss[order[k]].id})

\* lines 257-263: the ids the loop collects from position k of the order on
RECURSIVE sessions_to_remove(_, _, _, _, _)
sessions_to_remove(ss, limit, order, k, collected) ==
    IF k > Len(ss) THEN collected
    ELSE IF 10 * (Len(ss) - Cardinality(collected)) <= 8 * limit THEN collected
    ELSE IF ss[order[k]].status # "active"
         THEN sessions_to_remove(ss, limit, order, k + 1,
                                 collected \cup {ss[order[k]].id})
         ELSE sessions_to_remove(ss, limit, order, k + 1, collected)

\* SessionManager._cleanup_old_sessions
cleanup_old_sessions(ss, limit) ==
    without(ss, sessions_to_remove(ss, limit, sessions_by_age(ss), 1, {}))

\* SessionManager.create_session, session_id given or generated
create_session(ss, limit, session_id, t) ==
    LET session == Session(session_id, t)
        stored == IF position(ss, session_id) = 0 THEN Append(ss, session)
                  ELSE [ss EXCEPT ![position(ss, session_id)] = session]
    IN  [sessions |-> IF Len(stored) > limit
                      THEN cleanup_old_sessions(stored, limit)
                      ELSE stored,
         returns |-> session]

\* SessionManager.delete_session
delete_session(ss, session_id) ==
    IF position(ss, session_id) # 0
    THEN [sessions |-> without(ss, {session_id}), returns |-> TRUE]
    ELSE [sessions |-> ss, returns |-> FALSE]

\* add_pane_to_session without the test of what get_session returned
add_pane_to_session_unchecked(ss, session_id, pane, t) ==
    IF position(ss, session_id) = 0
    THEN [sessions |-> ss, returns |-> TRUE]
    ELSE [sessions |-> [ss EXCEPT ![position(ss, session_id)] =
                          [@ EXCEPT !.panes = Append(@, pane),
                                    !.updated_at = t]],
          returns |-> TRUE]

\* SessionManager.add_pane_to_session
add_pane_to_session(ss, session_id, pane, t) ==
    IF get_session(ss, session_id) = None
    THEN [sessions |-> ss, returns |-> FALSE]
    ELSE [sessions |-> [ss EXCEPT ![position(ss, session_id)] =
                          [@ EXCEPT !.panes = Append(@, pane),
                                    !.updated_at = t]],
          returns |-> TRUE]

\* next((p for p in session.panes if p.id == pane_id), None): its position
pane_position(session, pane_id) ==
    IF \E j \in 1..Len(session.panes) : session.panes[j].id = pane_id
    THEN CHOOSE j \in 1..Len(session.panes) :
            /\ session.panes[j].id = pane_id
            /\ \A k \in 1..(j - 1) : session.panes[k].id # pane_id
    ELSE 0

\* SessionManager.get_pane
get_pane(ss, session_id, pane_id) ==
    LET session == get_session(ss, session_id)
    IN  IF session = None THEN None
        ELSE IF pane_position(session, pane_id) = 0 THEN None
        ELSE session.panes[pane_position(session, pane_id)]

\* SessionManager.add_message_to_pane
add_message_to_pane(ss, session_id, pane_id, message, t) ==
    IF get_pane(ss, session_id, pane_id) = None
    THEN [sessions |-> ss, returns |-> FALSE]
    ELSE LET i == position(ss, session_id)
             j == pane_position(ss[i], pane_id)
         IN  [sessions |-> [ss EXCEPT ![i] =
                [@ EXCEPT !.panes[j].messages = Append(@, message),
                          !.updated_at = t]],
              returns |-> TRUE]

RECURSIVE sum(_)
sum(numbers) == IF numbers = <<>> THEN 0 ELSE Head(numbers) + sum(Tail(numbers))

\* SessionManager.get_session_stats
get_session_stats(ss) ==
    [total_sessions |-> Len(ss),
     active_sessions |-> sum([i \in 1..Len(ss) |->
                                IF ss[i].status = "active" THEN 1 ELSE 0]),
     total_panes |-> sum([i \in 1..Len(ss) |-> Len(ss[i].panes)]),
     total_messages |->
        sum([i \in 1..Len(ss) |->
                sum([j \in 1..Len(ss[i].panes) |->
                        Len(ss[i].panes[j].messages)])])]

InitSessions ==
    /\ Constructed
    /\ input = NoCall
    /\ output = NoCall
    /\ generator = NoGenerator
    /\ sessions = <<>>
    /\ max_sessions \in {SmallLimit, 1000}
    /\ AdapterRegistryInit

\* what a method of the session manager leaves alone
SessionFrame ==
    UNCHANGED <<now, ehVars, wsVars, logVars, generator, max_sessions, regVars>>

\* manager.create_session(session_id), and manager.create_session()
CreateSession(session_id) ==
    /\ session_id \in Uuids => position(sessions, session_id) = 0
    /\ LET done == create_session(sessions, max_sessions, session_id, now)
       IN  /\ sessions' = done.sessions
           /\ input' = [session_id |-> IF session_id \in Uuids THEN "" ELSE session_id]
           /\ output' = [fn |-> "create_session", returns |-> done.returns]
    /\ SessionFrame

DeleteSession(session_id) ==
    /\ LET done == delete_session(sessions, session_id)
       IN  /\ sessions' = done.sessions
           /\ input' = [session_id |-> session_id]
           /\ output' = [fn |-> "delete_session", returns |-> done.returns]
    /\ SessionFrame

AddPaneToSession(session_id, pane_id) ==
    /\ get_session(sessions, session_id) # None
       => Len(get_session(sessions, session_id).panes) < MaxPanes
    /\ LET done == add_pane_to_session(sessions, session_id,
                                       ChatPane(pane_id), now)
       IN  /\ sessions' = done.sessions
           /\ input' = [session_id |-> session_id, pane_id |-> pane_id]
           /\ output' = [fn |-> "add_pane_to_session", returns |-> done.returns]
    /\ SessionFrame

AddMessageToPane(session_id, pane_id, message) ==
    /\ get_pane(sessions, session_id, pane_id) # None
       => Len(get_pane(sessions, session_id, pane_id).messages) < MaxMessages
    /\ LET done == add_message_to_pane(sessions, session_id, pane_id,
                                       message, now)
       IN  /\ sessions' = done.sessions
           /\ input' = [session_id |-> session_id, pane_id |-> pane_id]
           /\ output' = [fn |-> "add_message_to_pane", returns |-> done.returns]
    /\ SessionFrame

GetSession(session_id) ==
    /\ input' = [session_id |-> session_id]
    /\ output' = [fn |-> "get_session",
                  returns |-> get_session(sessions, session_id)]
    /\ UNCHANGED sessions
    /\ SessionFrame

GetSessionStats ==
    /\ input' = NoCall
    /\ output' = [fn |-> "get_session_stats",
                  returns |-> get_session_stats(sessions)]
    /\ UNCHANGED sessions
    /\ SessionFrame

NextSessions ==
    \/ \E session_id \in SessionIds : CreateSession(session_id)
    \/ \E session_id \in SessionIds : DeleteSession(session_id)
    \/ \E session_id \in SessionIds, pane_id \in Panes :
            AddPaneToSession(session_id, pane_id)
    \/ \E session_id \in SessionIds, pane_id \in Panes, message \in Messages :
            AddMessageToPane(session_id, pane_id, message)
    \/ \E session_id \in SessionIds : GetSession(session_id)
    \/ GetSessionStats

SpecSessions == InitSessions /\ [][NextSessions]_vars

(***************************************************************************)
(* The store at its limit: sessions are created, archived and restored as  *)
(* time passes, under a max_sessions that four sessions exceed.            *)
(***************************************************************************)
StoreIds == SessionIds \cup {"s2", "s3"}

\* SessionManager.archive_session and restore_session: status is the one
\* they assign
set_status(ss, session_id, status, t) ==
    IF get_session(ss, session_id) = None
    THEN [sessions |-> ss, returns |-> FALSE]
    ELSE [sessions |-> [ss EXCEPT ![position(ss, session_id)] =
                          [@ EXCEPT !.status = status, !.updated_at = t]],
          returns |-> TRUE]

archive_session(ss, session_id, t) == set_status(ss, session_id, "archived", t)

restore_session(ss, session_id, t) == set_status(ss, session_id, "active", t)

InitStore ==
    /\ Constructed
    /\ input = NoCall
    /\ output = NoCall
    /\ generator = NoGenerator
    /\ sessions = <<>>
    /\ max_sessions \in {SmallLimit, SmallLimit + 2}
    /\ AdapterRegistryInit

ArchiveSession(session_id) ==
    /\ LET done == archive_session(sessions, session_id, now)
       IN  /\ sessions' = done.sessions
           /\ input' = [session_id |-> session_id]
           /\ output' = [fn |-> "archive_session", returns |-> done.returns]
    /\ SessionFrame

RestoreSession(session_id) ==
    /\ LET done == restore_session(sessions, session_id, now)
       IN  /\ sessions' = done.sessions
           /\ input' = [session_id |-> session_id]
           /\ output' = [fn |-> "restore_session", returns |-> done.returns]
    /\ SessionFrame

\* manager.create_session(session_id), and manager.create_session();
\* cleaned is history: the ids its cleanup has deleted
CreateSessionAtLimit(session_id) ==
    /\ session_id \in Uuids => position(sessions, session_id) = 0
    /\ LET done == create_session(sessions, max_sessions, session_id, now)
           keys(ss) == {ss[i].id : i \in 1..Len(ss)}
       IN  /\ sessions' = done.sessions
           /\ input' = [session_id |-> IF session_id \in Uuids THEN "" ELSE session_id]
           /\ output' = [fn |-> "create_session", returns |-> done.returns,
                         cleaned |-> (keys(sessions) \cup {session_id})
                                        \ keys(done.sessions)]
    /\ SessionFrame

NextStore ==
    \/ \E session_id \in StoreIds : CreateSessionAtLimit(session_id)
    \/ \E session_id \in StoreIds : ArchiveSession(session_id)
    \/ \E session_id \in StoreIds : RestoreSession(session_id)
    \/ \E d \in TickSteps :
            Tick(d) /\ UNCHANGED <<service_failures, wsVars, logVars, libVars>>

SpecStore == InitStore /\ [][NextStore]_vars

(***************************************************************************)
(* AdapterRegistry: register, get_adapter, list_providers, clear_cache.    *)
(* The models cache is read by discover_models only and is left out.       *)
(***************************************************************************)
ProviderNames == {"google", "groq", "litellm"}
AdapterClasses == {"GoogleDataStudioAdapter", "GroqAdapter", "LiteLLMAdapter"}

\* config: None, or a dict the caller passes
Configs == {"None", "given"}

\* the provider_name property of an adapter class
class_provider_name(adapter_class) ==
    CASE adapter_class = "GoogleDataStudioAdapter" -> "google"
      [] adapter_class = "GroqAdapter" -> "groq"
      [] adapter_class = "LiteLLMAdapter" -> "litellm"

\* adapter_class(config); a config of None is replaced by the default one
Adapter(adapter_class, config) ==
    [class |-> adapter_class,
     config |-> IF config = "None" THEN "default" ELSE config,
     provider_name |-> class_provider_name(adapter_class)]

\* AdapterRegistry.get_adapter: the instances afterwards, and what it returns
get_adapter(registered, made, provider_name, config) ==
    IF provider_name \notin DOMAIN registered
    THEN [instances |-> made, returns |-> None]
    ELSE IF provider_name \in DOMAIN made /\ config = "None"
    THEN [instances |-> made, returns |-> made[provider_name]]
    ELSE LET adapter == Adapter(registered[provider_name], config)
         IN  [instances |-> Put(made, provider_name, adapter),
              returns |-> adapter]

InitRegistry ==
    /\ Constructed
    /\ input = NoCall
    /\ output = NoCall
    /\ generator = NoGenerator
    /\ SessionManagerInit
    /\ AdapterRegistryInit

RegistryFrame ==
    UNCHANGED <<now, ehVars, wsVars, logVars, generator, smVars>>

\* registry.register(provider_name, adapter_class)
Register(provider_name, adapter_class) ==
    /\ adapters' = Put(adapters, provider_name, adapter_class)
    /\ input' = [provider_name |-> provider_name]
    /\ output' = [fn |-> "register"]
    /\ UNCHANGED instances
    /\ RegistryFrame

\* registry.get_adapter(provider_name, config)
GetAdapter(provider_name, config) ==
    /\ LET done == get_adapter(adapters, instances, provider_name, config)
       IN  /\ instances' = done.instances
           /\ output' = [fn |-> "get_adapter", returns |-> done.returns]
    /\ input' = [provider_name |-> provider_name]
    /\ UNCHANGED adapters
    /\ RegistryFrame

\* registry.list_providers(), as the set of the names in the list
ListProviders ==
    /\ input' = NoCall
    /\ output' = [fn |-> "list_providers", returns |-> DOMAIN adapters]
    /\ UNCHANGED regVars
    /\ RegistryFrame

\* registry.clear_cache()
ClearCache ==
    /\ instances' = <<>>
    /\ input' = NoCall
    /\ output' = [fn |-> "clear_cache"]
    /\ UNCHANGED adapters
    /\ RegistryFrame

NextRegistry ==
    \/ \E provider_name \in ProviderNames, adapter_class \in AdapterClasses :
            Register(provider_name, adapter_class)
    \/ \E provider_name \in ProviderNames, config \in Configs :
            GetAdapter(provider_name, config)
    \/ ListProviders
    \/ ClearCache

SpecRegistry == InitRegistry /\ [][NextRegistry]_vars

(***************************************************************************)
(* Properties of the connection manager                                    *)
(***************************************************************************)
\* C1: the session index and the connection table agree: every connection
\* id in a session's set is a key of the table with that session_id, and
\* every connection of the table is in the set of its session_id.
C1_IndexMatchesTable ==
    /\ \A session_id \in DOMAIN session_connections :
          \A id \in session_connections[session_id] :
             /\ id \in DOMAIN connections
             /\ connections[id].session_id = session_id
    /\ \A id \in DOMAIN connections :
          /\ connections[id].session_id \in DOMAIN session_connections
          /\ id \in session_connections[connections[id].session_id]

\* a broadcast is suspended in a send, one of the connections it set out to
\* reach has been removed meanwhile, and another is still registered
C1_Witness ==
    \E b \in BagToSet(broadcasts) :
        /\ b.pc = "sending"
        /\ \E j \in 1..Len(b.connection_ids) :
              b.connection_ids[j] \notin DOMAIN connections
        /\ DOMAIN connections # {}
        /\ DOMAIN session_connections # {}

\* b2 is the broadcast b after the step: the same call, one await later
Resumed(b, b2) ==
    /\ b2.session_id = b.session_id
    /\ b2.event = b.event
    /\ b2.connection_ids = b.connection_ids
    /\ Len(b2.attempts) = Len(b.attempts) + 1

\* the broadcasts a step starts, and the ones it leaves as they are
Started == {b2 \in BagToSet(broadcasts') :
               /\ b2.attempts = <<>>
               /\ CopiesIn(b2, broadcasts') > CopiesIn(b2, broadcasts)}
Untouched(b) == CopiesIn(b, broadcasts') >= CopiesIn(b, broadcasts)

\* b2 is where a broadcast stands after the step, and it got there by it
Moved(b2) == CopiesIn(b2, broadcasts') > CopiesIn(b2, broadcasts)

\* C11: within one send_event, a failed send or a disconnect on one
\* connection never stops the sends to the others: when a send has
\* returned or raised, whatever its outcome, the broadcast goes on to the
\* next connection of its list that is still in the table, passing over
\* those that are not, and it ends only when the list is exhausted; so
\* every connection of the list has had its send awaited or was found
\* missing from the table at its turn.
C11_EveryTargetAttempted ==
    [][/\ \A b \in BagToSet(broadcasts) :
            b.pc = "sending" =>
              \/ Untouched(b)
              \/ \E b2 \in BagToSet(broadcasts') :
                    /\ Resumed(b, b2)
                    /\ b2.attempts[Len(b2.attempts)][1] = b.connection_ids[b.i]
                    /\ b2.i > b.i
                    /\ \A k \in (b.i + 1)..(b2.i - 1) :
                          b.connection_ids[k] \notin DOMAIN connections
                    /\ b2.pc = "sending" =>
                          b2.connection_ids[b2.i] \in DOMAIN connections
                    /\ b2.pc = "done" => b2.i = Len(b.connection_ids) + 1
       /\ \A b2 \in BagToSet(broadcasts') :
            b2.pc = "done" =>
              Targets(b2) \subseteq
                 Attempted(b2) \cup
                 {b2.failed_connections[k] : k \in 1..Len(b2.failed_connections)}]_vars

\* the send to the first connection of a broadcast failed, and the send to
\* the second one is being awaited
C11_Witness ==
    \E b \in BagToSet(broadcasts) :
        /\ b.pc = "sending"
        /\ b.i = 2
        /\ Len(b.attempts) = 1
        /\ b.attempts[1][2] # "ok"
        /\ b.attempts[1][1] = b.connection_ids[1]

\* C12: send_event(S, event) sends to exactly the connections indexed under
\* S and to no connection of another session: the targets a broadcast
\* starts with are the ids of S's set in the index, each once; it awaits a
\* send on no other connection; and every event a connection has received
\* was passed to send_event for that connection's session.
C12_ExactlyTheSession ==
    [][/\ \A b2 \in Started :
            IF b2.session_id \in DOMAIN session_connections
            THEN /\ Targets(b2) = session_connections[b2.session_id]
                 /\ Len(b2.connection_ids) =
                       Cardinality(session_connections[b2.session_id])
            ELSE b2.connection_ids = <<>>
       /\ \A b2 \in BagToSet(broadcasts') :
            /\ Attempted(b2) \subseteq Targets(b2)
            /\ (b2.pc = "sending" /\ Moved(b2)) =>
                  /\ b2.connection_ids[b2.i] \in DOMAIN connections'
                  /\ connections'[b2.connection_ids[b2.i]].session_id
                        = b2.session_id
       /\ \A id \in DOMAIN received' :
            \A k \in 1..Len(received'[id].events) :
               issued'[received'[id].events[k]] = received'[id].session_id]_vars

\* two connections of one session have both received the first event; one
\* of them was disconnected, and the second event has been received by the
\* other one alone, with send_event returning true
C12_Witness ==
    \E b \in BagToSet(broadcasts) : \E id, gone \in DOMAIN received :
        /\ b.pc = "done" /\ b.event = 2 /\ b.returns
        /\ Targets(b) = {id}
        /\ received[id].events = <<1, 2>>
        /\ received[gone].events = <<1>>
        /\ received[gone].session_id = received[id].session_id
        /\ gone \notin DOMAIN connections
        /\ issued = <<b.session_id, b.session_id>>

\* C13: send_event returns true if and only if at least one send_text of
\* that call returned; called for a session that is not in the index it
\* returns false at once, with no send, and leaves the connection table and
\* the session index as they were.
C13_TrueIffOneSent ==
    [][\A b2 \in BagToSet(broadcasts') :
          (b2.pc = "done" /\ Moved(b2)) =>
             /\ b2.returns <=> (Delivered(b2) # {})
             /\ (b2 \in Started
                 /\ b2.session_id \notin DOMAIN session_connections) =>
                   /\ ~b2.returns
                   /\ b2.attempts = <<>>
                   /\ connections' = connections
                   /\ session_connections' = session_connections]_vars

\* send_event has returned false for a session without connections while
\* another session has one
C13_Witness ==
    \E b \in BagToSet(broadcasts) :
        /\ b.pc = "done"
        /\ b.connection_ids = <<>>
        /\ ~b.returns
        /\ b.session_id \notin DOMAIN session_connections
        /\ DOMAIN connections # {}

\* the ids a broadcast will disconnect when its loop is over
Failed(b) == {b.failed_connections[k] : k \in 1..Len(b.failed_connections)}

C15_FailuresCountToThree ==
    [][\A b \in BagToSet(broadcasts) :
          (b.pc = "sending" /\ ~Untouched(b)) =>
             \E b2 \in BagToSet(broadcasts') :
                /\ Resumed(b, b2)
                /\ LET id == b.connection_ids[b.i]
                       outcome == b2.attempts[Len(b2.attempts)][2]
                       before == info(Manager, id).failed_sends
                   IN  outcome # "ok" =>
                         /\ id \in DOMAIN connections' =>
                               connections'[id].failed_sends = before + 1
                         /\ id \in Failed(b2) =>
                               before + 1 >= max_failed_sends
                         /\ (before = 0 /\ id \in DOMAIN connections) =>
                               id \in DOMAIN connections']_vars

\* C16: when a producer passes its events to send_event one call after
\* another, each awaited before the next, a connection receives them in the
\* order of the calls, none twice and none out of order: the numbers of the
\* events in a connection's log increase strictly, and the event a call is
\* sending is the last one issued.
C16_InOrderOfIssue ==
    /\ \A id \in DOMAIN received :
          \A j, k \in 1..Len(received[id].events) :
             j < k => received[id].events[j] < received[id].events[k]
    /\ \A b \in BagToSet(broadcasts) : b.event = Len(issued)

\* a connection that stayed subscribed has received the three events
C16_Witness ==
    \E id \in DOMAIN connections :
        /\ received[id].events = <<1, 2, 3>>
        /\ Len(issued) = MaxEvents

\* self.session_connections.get(session_id, set())
session_set(index, session_id) ==
    IF session_id \in DOMAIN index THEN index[session_id] ELSE {}

\* while a send_event call stands between two of its sends, the step leaves
\* the set of its session as it is
ConnectDisconnectAtomic ==
    \A b \in BagToSet(broadcasts) :
       (b.pc = "sending" /\ b.i < Len(b.connection_ids) /\ Untouched(b)) =>
          session_set(session_connections', b.session_id)
             = session_set(session_connections, b.session_id)

\* while a call that has completed a send is awaiting another, no other
\* call is awaiting a send
SendsNotInterleaved ==
    \A b1, b2 \in BagToSet(broadcasts) :
       (b1.pc = "sending" /\ Len(b1.attempts) >= 1 /\ b2.pc = "sending") =>
          (b2 = b1 /\ CopiesIn(b1, broadcasts) = 1)

\* C17: connect, disconnect and send_event are atomic with respect to one
\* another: while a send_event call stands between two of its sends, no
\* connect or disconnect changes the set of its session, and no two
\* send_event calls have their sends interleaved.
C17_AtomicOperations ==
    [][ConnectDisconnectAtomic /\ SendsNotInterleaved']_vars

\* C18: disconnect is idempotent: disconnect(id) for an id that is not in
\* the table, never registered or already removed, changes neither the
\* table nor the session index, and disconnect(id) twice leaves the state
\* that disconnect(id) once leaves.
C18_DisconnectIdempotent ==
    \A id \in ConnectionIds :
        LET once == disconnect(Manager, id)
            twice == disconnect(once, id)
        IN  /\ id \notin DOMAIN connections =>
                  (once.c = connections /\ once.s = session_connections)
            /\ id \notin DOMAIN once.c
            /\ twice = once

\* one connection has been removed and another is registered; disconnect of
\* an id that is not in the table leaves the manager as it is
C18_Witness ==
    /\ \E id \in 1..next_id : id \notin DOMAIN connections
    /\ \E id \in 1..next_id : id \in DOMAIN connections
    /\ \E id \in ConnectionIds :
          id \notin DOMAIN connections /\ disconnect(Manager, id) = Manager

\* time_since_ping > self.heartbeat_interval * 2, for a pass that took its
\* now at time t
Stale(connection_info, t) ==
    (t - connection_info.last_ping) > heartbeat_interval * 2

\* C19: in each heartbeat pass every connection whose last_ping is older
\* than twice heartbeat_interval is pinged, and every one whose ping fails
\* is unregistered by the end of the pass, also when connections are
\* registered or removed while the pass is running; connections with a
\* recent last_ping are not pinged.  So when a pass that has pinged goes back
\* to sleep, the connections whose ping failed are out of the table and no
\* connection of the table is still stale for that pass; and a ping is
\* started only on a connection that is stale for the pass.
C19_HeartbeatPass ==
    [][/\ (heartbeat.pc = "pinging" /\ heartbeat'.pc = "sleep") =>
            /\ \A k \in 1..Len(heartbeat.stale_connections) :
                  heartbeat.stale_connections[k] \notin DOMAIN connections'
            /\ \A id \in DOMAIN connections' :
                  ~Stale(connections'[id], heartbeat.t)
       /\ (heartbeat'.pc = "pinging" /\ heartbeat' # heartbeat) =>
            /\ heartbeat'.connection_id \in DOMAIN connections'
            /\ Stale(connections'[heartbeat'.connection_id], heartbeat'.t)]_vars

(***************************************************************************)
(* Properties of the circuit breaker and of execute_with_retry             *)
(***************************************************************************)
\* the outcome a step has just produced, if any
NewOutcomes == IF Outcomes = {} THEN Outcomes' ELSE {}

\* now - last_failure_time > recovery_timeout
Recovered(cb, t) == (t - cb.last_failure_time) > recovery_timeout

\* C2: once failure_threshold consecutive failures have been recorded (the
\* breaker is open), can_execute() returns false on every call made until
\* more than recovery_timeout has elapsed since last_failure_time: whatever
\* step is taken from an open breaker, afterwards either the timeout has
\* elapsed or can_execute() still returns false.
C2_BlockedUntilRecovery ==
    [][\A p \in DOMAIN circuit_breakers :
          (/\ circuit_breakers[p].state = "open"
           /\ circuit_breakers[p].failure_count >= failure_threshold
           /\ ~Recovered(circuit_breakers'[p], now'))
          => ~can_execute(circuit_breakers'[p], now')]_vars

\* C3: a half-open breaker lets exactly one call through: can_execute() does
\* not return true a second time before a success or a failure has been
\* recorded.
C3_OneProbe == \A p \in Providers : probes[p] <= 1

\* C4: recording a success in half-open or closed leaves the breaker closed
\* with failure_count 0; recording a failure in half-open leaves it open with
\* last_failure_time refreshed to the current time.
C4_RecordedOutcome ==
    [][\A r \in NewOutcomes :
          LET before == circuit_breakers[r.provider]
              after == circuit_breakers'[r.provider]
          IN  /\ (r.result = "result" /\ before.state \in {"half-open", "closed"})
                    => (after.state = "closed" /\ after.failure_count = 0)
              /\ (r.result = "error" /\ before.state = "half-open")
                    => (after.state = "open" /\ after.last_failure_time = now')]_vars

\* a call admitted as the half-open probe has failed: the breaker is open
\* again and last_failure_time is the time of that failure
C4_Witness ==
    \E r \in Outcomes :
        /\ r.result = "error"
        /\ r.rec_from = "half-open"
        /\ circuit_breakers[r.provider].state = "open"
        /\ circuit_breakers[r.provider].last_failure_time = now
        /\ now > recovery_timeout

\* C5: a call the breaker denies raises the circuit-open condition without
\* invoking the operation, records no failure, and leaves the breakers
\* (failure_count, last_failure_time, state) as they were.
C5_DeniedLeavesBreaker ==
    [][\A r \in NewOutcomes :
          r.result = "circuit_open"
          => (/\ r.invocations = 0
              /\ r.recorded = 0
              /\ r.pc = "raised"
              /\ ~can_execute(circuit_breakers[r.provider], now)
              /\ circuit_breakers' = circuit_breakers)]_vars

C5_Witness ==
    \E r \in Outcomes :
        /\ r.result = "circuit_open"
        /\ circuit_breakers[r.provider].state = "open"
        /\ circuit_breakers[r.provider].failure_count >= failure_threshold

\* C6: after an attempt failed with a kind whose max_retries is 0 the call
\* neither backs off nor attempts again, it has raised that error; and when
\* the first attempt failed so, the operation was invoked exactly once.
NoRetry(error) == retry_strategies[error_types[error]].max_retries = 0

C6_NoRetryKinds ==
    \A r \in InFlight :
        /\ (r.last_error \in OperationErrors /\ NoRetry(r.last_error))
              => (r.pc = "raised" /\ r.result = "error")
        /\ (r.result = "error" /\ r.kinds \in {AUTH_ERROR, VALIDATION_ERROR})
              => r.invocations = 1

C6_Witness ==
    \E r \in Outcomes :
        /\ r.result = "error"
        /\ r.last_error = err_auth
        /\ r.kinds = AUTH_ERROR
        /\ r.invocations = 1

\* C7: an operation that fails on every attempt with the same kind K is
\* invoked exactly max_retries(K) + 1 times before the error is propagated.
C7_AttemptsPerKind ==
    \A r \in Outcomes :
        (r.result = "error" /\ r.kinds \in ErrorType)
        => r.invocations = retry_strategies[r.kinds].max_retries + 1

\* C8: a call that ends by propagating an operation error makes its
\* provider's failure_count grow by exactly 1, and the error propagated is
\* the one the last attempt raised.
C8_OneFailurePerCall ==
    [][\A r \in NewOutcomes :
          r.result = "error"
          => circuit_breakers'[r.provider].failure_count
                = circuit_breakers[r.provider].failure_count + 1]_vars

\* C9: after five calls for a provider in a row have ended by raising
\* service_error-classified errors, while no more than recovery_timeout has
\* passed since the last failure, can_execute() returns false, and a call
\* started then raises the circuit-open condition with no invocation.
C9_SixthCallBlocked ==
    [][\A p \in Providers :
          (/\ service_failures[p] >= failure_threshold
           /\ ~Recovered(circuit_breakers[p], now))
          => /\ ~can_execute(circuit_breakers[p], now)
             /\ \A r \in NewOutcomes :
                  (r.provider = p /\ BagCardinality(calls') > BagCardinality(calls))
                  => (r.result = "circuit_open" /\ r.invocations = 0)
             /\ BagCardinality(calls') > BagCardinality(calls)
                  => NewOutcomes # {}]_vars

C9_Witness ==
    \E r \in Outcomes :
        /\ r.result = "circuit_open"
        /\ r.invocations = 0
        /\ service_failures[r.provider] = failure_threshold

\* C10: a success at any attempt records a breaker success and returns that
\* attempt's result: the call has recorded no failure, has invoked the
\* operation once per attempt, and right after it the breaker is closed with
\* failure_count 0 whatever its state was.
C10_SuccessResets ==
    [][\A r \in NewOutcomes :
          r.result = "result"
          => (/\ r.pc = "returned"
              /\ r.recorded = 0
              /\ r.invocations = r.attempt + 1
              /\ circuit_breakers'[r.provider].state = "closed"
              /\ circuit_breakers'[r.provider].failure_count = 0
              /\ circuit_breakers'[r.provider].last_failure_time
                    = circuit_breakers[r.provider].last_failure_time)]_vars

\* two timeouts, then success on the third attempt
C10_Witness ==
    \E r \in Outcomes :
        /\ r.result = "result"
        /\ r.kinds = TIMEOUT
        /\ r.attempt = 2
        /\ r.invocations = 3
        /\ circuit_breakers[r.provider].state = "closed"
        /\ circuit_breakers[r.provider].failure_count = 0

\* the call records a step of execute_with_retry adds or rewrites
Stepped == {r \in BagToSet(calls') : CopiesIn(r, calls') > CopiesIn(r, calls)}

\* the step is the entry of a new call
Entered == BagCardinality(calls') > BagCardinality(calls)

\* C20: breaker state is scoped per provider: the breaker of a provider q
\* stays in the registry with the same failure_count, last_failure_time and
\* state in every step that is not a step of a call for q, and a call for q
\* is blocked exactly when q has a breaker and that breaker refuses it,
\* whatever the breakers of the other providers hold.
C20_ProviderScoped ==
    [][\A q \in AllProviders :
          /\ (/\ q \in DOMAIN circuit_breakers
              /\ (\/ q \notin DOMAIN circuit_breakers'
                  \/ circuit_breakers'[q] # circuit_breakers[q]))
             => \E r \in Stepped : r.provider = q
          /\ Entered
             => \A r \in Stepped :
                   r.provider = q
                   => ((r.result = "circuit_open")
                       <=> (/\ q \in DOMAIN circuit_breakers
                            /\ ~can_execute(circuit_breakers[q], now)))]_vars

\* P's breaker has opened on five failures while a call for Q, whose breaker
\* is closed and has counted nothing, is in its operation
C20_Witness ==
    /\ AllProviders \subseteq DOMAIN circuit_breakers
    /\ circuit_breakers["P"].state = "open"
    /\ circuit_breakers["P"].failure_count >= failure_threshold
    /\ ~can_execute(circuit_breakers["P"], now)
    /\ circuit_breakers["Q"] = CircuitBreaker
    /\ \E r \in InFlight : r.provider = "Q" /\ r.pc = "operation"
    /\ \A r \in InFlight : r.provider = "Q"

\* the kinds classify_error assigns on a status code or a keyword
ProviderErrorKinds == ErrorType \ {UNKNOWN_ERROR}

\* C21: the exception of a call the breaker blocked differs from every
\* exception an operation has raised in a call still in flight, and
\* classify_error gives it none of the provider-error kinds.
C21_BlockedIsDistinct ==
    \A r \in Outcomes :
        r.result = "circuit_open"
        => (/\ \A r2 \in InFlight :
                  r2.last_error # NoError => raised(r) # r2.last_error
            /\ classify_error(raised(r).message, 0) \notin ProviderErrorKinds)

(***************************************************************************)
(* Properties of classify_error and create_error_event                     *)
(***************************************************************************)
\* C22: create_error_event(error, pane_id, status_code) returns an event of
\* type error for that pane whose code is the kind classify_error returns
\* for (error, status_code) and whose retryable flag is true exactly when
\* that kind's max_retries is above 0: false for auth_error and
\* validation_error, true for every other kind.
C22_ErrorEvent ==
    output.fn = "create_error_event"
    => LET event == output.returns
       IN  /\ event.type = "error"
           /\ event.pane_id = input.pane_id
           /\ event.data.message = str(input.phrases)
           /\ event.data.code
                = classify_error(str(input.phrases), input.status_code)
           /\ event.data.retryable
                <=> retry_strategies[event.data.code].max_retries > 0
           /\ event.data.retryable
                <=> event.data.code \notin {AUTH_ERROR, VALIDATION_ERROR}

\* a timeout text with status 401: an auth_error event, not retryable
C22_Witness ==
    /\ output.fn = "create_error_event"
    /\ input.phrases = <<"Timeout">>
    /\ input.status_code = 401
    /\ input.pane_id = "pane-2"
    /\ output.returns.pane_id = "pane-2"
    /\ output.returns.data.code = AUTH_ERROR
    /\ ~output.returns.data.retryable

\* the kind the status code stands for
status_kind(status_code) ==
    CASE status_code = 429 -> RATE_LIMIT
      [] status_code \in {401, 403} -> AUTH_ERROR
      [] status_code >= 500 -> SERVICE_ERROR
      [] OTHER -> VALIDATION_ERROR

\* C24: with a status code of 400 or above, classify_error returns the kind
\* of the status code (429 rate_limit; 401 and 403 auth_error; 500 and above
\* service_error; the rest validation_error) whatever the text says.
C24_StatusFirst ==
    (output.fn = "classify_error" /\ input.status_code >= 400)
    => output.returns = status_kind(input.status_code)

\* a text that says auth and timeout, classified service_error on a 503
C24_Witness ==
    /\ output.fn = "classify_error"
    /\ input.status_code = 503
    /\ input.phrases = <<"Auth", "TIMED OUT">>
    /\ output.returns = SERVICE_ERROR

Says(phrases, kind) == \E i \in DOMAIN phrases : phrase_kind(phrases[i]) = kind

\* the kind of the first of timeout, rate_limit, auth_error, network_error
\* that a phrase of the text says
keyword_kind(phrases) ==
    CASE Says(phrases, TIMEOUT) -> TIMEOUT
      [] ~Says(phrases, TIMEOUT) /\ Says(phrases, RATE_LIMIT) -> RATE_LIMIT
      [] ~Says(phrases, TIMEOUT) /\ ~Says(phrases, RATE_LIMIT)
         /\ Says(phrases, AUTH_ERROR) -> AUTH_ERROR
      [] ~Says(phrases, TIMEOUT) /\ ~Says(phrases, RATE_LIMIT)
         /\ ~Says(phrases, AUTH_ERROR) /\ Says(phrases, NETWORK_ERROR)
            -> NETWORK_ERROR
      [] OTHER -> UNKNOWN_ERROR

\* C29: without a status code of 400 or above, the kind classify_error
\* returns is decided by the keywords of the text alone, whatever their
\* case, timeout before rate_limit before auth_error before network_error,
\* unknown_error when there is none; and the call changes nothing of the
\* handler.
C29_KeywordOrder ==
    [][(output = NoCall /\ output'.fn = "classify_error")
       => (/\ input.status_code < 400
              => output'.returns = keyword_kind(input.phrases)
           /\ UNCHANGED <<now, ehVars, wsVars, input>>)]_vars

\* upper-case keywords of two kinds, and a status code below 400
C29_Witness ==
    /\ output.fn = "classify_error"
    /\ input.status_code = 200
    /\ input.phrases = <<"UNAUTHORIZED", "TIMED OUT">>
    /\ output.returns = TIMEOUT

(***************************************************************************)
(* Properties of stream_with_error_handling                                *)
(***************************************************************************)
\* C23: the generator never raises; until the adapter's stream fails it has
\* yielded the stream's events unchanged and in order; when the stream
\* fails it yields after them exactly one event, of type error and with the
\* pane_id it was given, and then ends; when the stream ends normally it
\* ends having added nothing.
C23_OneErrorEvent ==
    generator.pc # "none"
    => LET g == generator
           n == Len(g.pulled)
       IN  /\ g.pc # "raised"
           /\ g.failed <=> (g.pc = "error_yielded"
                             \/ (g.pc = "ended" /\ Len(g.yielded) # n))
           /\ ~g.failed => g.yielded = g.pulled
           /\ g.failed
              => (/\ Len(g.yielded) = n + 1
                  /\ SubSeq(g.yielded, 1, n) = g.pulled
                  /\ g.yielded[n + 1].type = "error"
                  /\ g.yielded[n + 1].pane_id = g.pane_id)

\* the stream failed after an event of another pane; the generator has
\* yielded that event and the error event and has ended
C23_Witness ==
    /\ generator.pc = "ended"
    /\ generator.failed
    /\ Len(generator.pulled) = 1
    /\ generator.pulled[1].pane_id # generator.pane_id
    /\ generator.yielded[1] = generator.pulled[1]
    /\ generator.yielded[2].data.code = TIMEOUT

(***************************************************************************)
(* Properties of RetryStrategy.get_delay                                   *)
(***************************************************************************)
\* base_delay * exponential_base^n, or max_delay when that is smaller
backoff(strategy, n) ==
    LET grown == strategy.base_delay * (strategy.exponential_base ^ n)
    IN  IF grown <= strategy.max_delay THEN grown ELSE strategy.max_delay

\* C25: without jitter get_delay(n) is min(base_delay * exponential_base^n,
\* max_delay), so it is never above max_delay and never below get_delay(n-1);
\* with jitter it lies between half of that value and that value.
C25_Backoff ==
    output.fn = "get_delay"
    => LET strategy == input.strategy
           n == input.attempt
           d == backoff(strategy, n)
       IN  IF strategy.jitter
           THEN 2 * output.returns >= d /\ output.returns <= d
           ELSE /\ output.returns = d
                /\ output.returns <= strategy.max_delay
                /\ n > 0 => output.returns >= get_delay(strategy, n - 1, 0)

\* rate_limit's strategy without jitter at attempt 6: 2 s * 64 is above the
\* cap of 120 s
C25_Witness ==
    /\ output.fn = "get_delay"
    /\ ~input.strategy.jitter
    /\ input.strategy.base_delay = 2000
    /\ input.strategy.max_delay = 120000
    /\ input.attempt = 6
    /\ output.returns = 120000

(***************************************************************************)
(* Properties of the session manager                                       *)
(***************************************************************************)
StoredIds(ss) == {ss[i].id : i \in 1..Len(ss)}

\* one element for every stored pane, and for every stored message
StoredPanes(ss) ==
    {<<i, j>> : i \in 1..Len(ss), j \in 1..MaxPanes + 1} \cap
    {place \in (1..Len(ss)) \X (1..MaxPanes + 1) :
        place[2] <= Len(ss[place[1]].panes)}

StoredMessages(ss) ==
    {place \in StoredPanes(ss) \X (1..MaxMessages + 1) :
        place[2] <= Len(ss[place[1][1]].panes[place[1][2]].messages)}

\* C26: create_session stores a session under its id and removes none,
\* delete_session removes exactly its id, and the other methods leave the
\* stored ids alone, so get_session returns a session exactly for the ids
\* created and not removed since; add_pane_to_session and
\* add_message_to_pane return True exactly when the session (and the pane)
\* exists, adding one pane or one message, and otherwise return False and
\* change nothing; get_session_stats counts the stored sessions, panes and
\* messages.
C26_SessionStore ==
    [][LET fn == output'.fn
           ids == StoredIds(sessions)
       IN  /\ fn = "create_session"
              => (/\ StoredIds(sessions') = ids \cup {output'.returns.id}
                  /\ input'.session_id # ""
                     => output'.returns.id = input'.session_id
                  /\ get_session(sessions', output'.returns.id)
                        = output'.returns)
           /\ fn = "delete_session"
              => (/\ StoredIds(sessions') = ids \ {input'.session_id}
                  /\ output'.returns <=> input'.session_id \in ids)
           /\ fn = "get_session"
              => (/\ sessions' = sessions
                  /\ IF input'.session_id \in ids
                     THEN /\ output'.returns.id = input'.session_id
                          /\ \E i \in 1..Len(sessions) :
                                sessions[i] = output'.returns
                     ELSE output'.returns = None)
           /\ fn = "add_pane_to_session"
              => (/\ StoredIds(sessions') = ids
                  /\ output'.returns <=> input'.session_id \in ids
                  /\ IF output'.returns
                     THEN /\ Cardinality(StoredPanes(sessions'))
                               = Cardinality(StoredPanes(sessions)) + 1
                          /\ Cardinality(StoredMessages(sessions'))
                               = Cardinality(StoredMessages(sessions))
                     ELSE sessions' = sessions)
           /\ fn = "add_message_to_pane"
              => (/\ StoredIds(sessions') = ids
                  /\ output'.returns
                     <=> \E i \in 1..Len(sessions) :
                            /\ sessions[i].id = input'.session_id
                            /\ \E j \in 1..Len(sessions[i].panes) :
                                  sessions[i].panes[j].id = input'.pane_id
                  /\ IF output'.returns
                     THEN /\ Cardinality(StoredMessages(sessions'))
                               = Cardinality(StoredMessages(sessions)) + 1
                          /\ Cardinality(StoredPanes(sessions'))
                               = Cardinality(StoredPanes(sessions))
                     ELSE sessions' = sessions)
           /\ fn = "get_session_stats"
              => (/\ sessions' = sessions
                  /\ output'.returns.total_sessions = Cardinality(ids)
                  /\ output'.returns.total_panes
                       = Cardinality(StoredPanes(sessions))
                  /\ output'.returns.total_messages
                       = Cardinality(StoredMessages(sessions)))]_vars

\* two sessions are stored; one has two panes with the same id and a
\* message in the first of them only
C26_Witness ==
    /\ max_sessions = 1000
    /\ output.fn = "get_session_stats"
    /\ output.returns.total_sessions = 2
    /\ output.returns.total_panes = 3
    /\ output.returns.total_messages = 2
    /\ \E i \in 1..Len(sessions) :
          /\ Len(sessions[i].panes) = 2
          /\ sessions[i].panes[1].id = sessions[i].panes[2].id
          /\ sessions[i].panes[1].messages # <<>>
          /\ sessions[i].panes[2].messages = <<>>

(***************************************************************************)
(* Properties of the adapter registry                                      *)
(***************************************************************************)
\* C27: list_providers returns exactly the registered names; get_adapter
\* returns an adapter whose provider_name is the name asked for when the
\* name is registered and None otherwise; and the first list_providers of
\* a registry just constructed has "litellm" in it.
C27_RegistryProviders ==
    [][/\ output'.fn = "list_providers"
          => (/\ output'.returns = DOMAIN adapters
              /\ output = NoCall => "litellm" \in output'.returns)
       /\ output'.fn = "get_adapter"
          => IF input'.provider_name \in DOMAIN adapters
             THEN /\ output'.returns # None
                  /\ output'.returns.provider_name = input'.provider_name
             ELSE output'.returns = None]_vars

(***************************************************************************)
(* C28                                                                     *)
(***************************************************************************)
\* the breaker's fields agree: closed below the threshold, open or half-open
\* at or above it with a failure time
Consistent(cb) ==
    /\ cb.state = "closed" => cb.failure_count < failure_threshold
    /\ cb.state \in {"open", "half-open"}
         => /\ cb.failure_count >= failure_threshold
            /\ cb.last_failure_time # NoneTime

\* the step takes the breaker from closed to open
Opens(cb, cb2) == cb.state = "closed" /\ cb2.state = "open"

\* the step records the failure that makes failure_count reach the threshold
ReachesThreshold(cb, cb2) ==
    /\ cb.failure_count = failure_threshold - 1
    /\ cb2.failure_count = failure_threshold

\* C28: in every reachable state a closed breaker has failure_count below
\* failure_threshold and an open or half-open one has failure_count at or
\* above it and a last_failure_time; and a step takes the breaker from
\* closed to open exactly when it records the failure that makes
\* failure_count reach failure_threshold.
C28_BreakerConsistent ==
    /\ [](\A p \in DOMAIN circuit_breakers : Consistent(circuit_breakers[p]))
    /\ [][\A p \in DOMAIN circuit_breakers \cap DOMAIN circuit_breakers' :
            Opens(circuit_breakers[p], circuit_breakers'[p])
              <=> ReachesThreshold(circuit_breakers[p], circuit_breakers'[p])]_vars

\* a breaker that opened at its fifth failure, was probed after the
\* recovery timeout and is half-open
C28_Witness ==
    \E p \in DOMAIN circuit_breakers :
        /\ circuit_breakers[p].state = "half-open"
        /\ circuit_breakers[p].failure_count = failure_threshold
        /\ now - circuit_breakers[p].last_failure_time > recovery_timeout

(***************************************************************************)
(* C30                                                                     *)
(***************************************************************************)
\* C30: one attempt counter is shared across error kinds: after a failure
\* at attempt a classified as kind K the executor retries if and only if
\* a < max_retries(K), whatever the kinds of the call's earlier failures.
\* A call back in operation() with attempt a + 1 has retried after its
\* failure at a; a call that raised its last error has not retried after
\* its failure at the attempt it holds.
C30_SharedCounter ==
    \A r \in InFlight :
        LET max_retries == retry_strategies[error_types[r.last_error]].max_retries
        IN  /\ (r.pc = "operation" /\ r.attempt > 0)
                 => r.attempt - 1 < max_retries
            /\ (r.pc = "raised" /\ r.result = "error")
                 => r.attempt >= max_retries

(***************************************************************************)
(* C31                                                                     *)
(***************************************************************************)
\* the send_to_connection records that the step has added or moved on
SendStepped ==
    {x \in BagToSet(sends') : CopiesIn(x, sends') > CopiesIn(x, sends)}

\* last_ping of the registered connections other than id is as it was
OtherPingsKept(id) ==
    \A other \in (DOMAIN connections \cap DOMAIN connections') \ {id} :
        connections'[other].last_ping = connections[other].last_ping

\* C31: ping_connection(id) sets the connection's last_ping to the current
\* time only when the probe send succeeds; when the send fails or the id is
\* not registered it returns false and last_ping is left unchanged, and a
\* failed ping counts toward the failed_sends counter that broadcasts use
\* (it adds one to it, and the connection is removed when it reaches
\* max_failed_sends).
C31_PingStampsOnSuccess ==
    [][\A x2 \in SendStepped :
          (x2.ping /\ x2.pc = "done")
          => LET id == x2.connection_id
                 was == [x2 EXCEPT !.pc = "sending", !.returns = FALSE]
             IN  /\ OtherPingsKept(id)
                 /\ IF was \notin BagToSet(sends)
                    THEN \* the id was not registered when ping was called
                         /\ id \notin DOMAIN connections
                         /\ ~x2.returns
                         /\ connections' = connections
                    ELSE IF x2.returns
                    THEN id \in DOMAIN connections'
                           => /\ connections'[id].last_ping = now
                              /\ connections'[id].failed_sends = 0
                    ELSE LET failed_sends == info(Manager, id).failed_sends + 1
                         IN  /\ id \in DOMAIN connections'
                                  => /\ connections'[id].last_ping =
                                          connections[id].last_ping
                                     /\ connections'[id].failed_sends = failed_sends
                                     /\ failed_sends < max_failed_sends
                             /\ (id \in DOMAIN connections
                                 /\ id \notin DOMAIN connections')
                                  => failed_sends >= max_failed_sends]_vars

\* a ping that succeeded after time had passed and stamped the connection,
\* next to a connection that keeps the last_ping of its accept
C31_Witness ==
    \E x \in BagToSet(sends) :
        /\ x.ping /\ x.pc = "done" /\ x.returns
        /\ x.connection_id \in DOMAIN connections
        /\ now > 0
        /\ connections[x.connection_id].last_ping = now
        /\ \E other \in DOMAIN connections : connections[other].last_ping < now

(***************************************************************************)
(* C32                                                                     *)
(***************************************************************************)
\* the step is a connect call: only connect assigns output and next_id
ConnectStep == output' # output \/ next_id' # next_id

\* the ids the index holds under session_id
Indexed(index, session_id) ==
    IF session_id \in DOMAIN index THEN index[session_id] ELSE {}

\* C32: a ConnectionInfo is created only on a successful accept: when
\* accept fails connect raises, no connection id is added to the table or
\* to any session's set, and the table and the index are unchanged; when
\* accept succeeds the new connection starts with failed_sends 0 and alive
\* and is indexed under exactly its session.
C32_CreatedOnAccept ==
    [][ConnectStep =>
         IF output'.raised
         THEN /\ connections' = connections
              /\ session_connections' = session_connections
         ELSE LET id == output'.returns
                  session_id == input'.session_id
              IN  /\ id \notin DOMAIN connections
                  /\ DOMAIN connections' = DOMAIN connections \cup {id}
                  /\ \A other \in DOMAIN connections :
                        connections'[other] = connections[other]
                  /\ connections'[id].session_id = session_id
                  /\ connections'[id].failed_sends = 0
                  /\ connections'[id].is_alive
                  /\ \A s \in Sessions :
                        Indexed(session_connections', s) =
                          Indexed(session_connections, s)
                            \cup (IF s = session_id THEN {id} ELSE {})]_vars

\* a connect whose accept raised, next to a registered connection that has
\* counted a failed send
C32_Witness ==
    /\ output # NoCall
    /\ output.raised
    /\ \E id \in DOMAIN connections : connections[id].failed_sends > 0

(***************************************************************************)
(* C33                                                                     *)
(***************************************************************************)
\* C33: the session store is bounded: after every create_session call
\* returns, the number of stored sessions is at most max_sessions.
C33_StoreBounded ==
    output.fn = "create_session" => Len(sessions) <= max_sessions

(***************************************************************************)
(* C34                                                                     *)
(***************************************************************************)
\* the stored session of that id
Stored(ss, session_id) == ss[position(ss, session_id)]

\* the id create_session has stored its session under
CreatedId == output'.returns.id

\* the ids the cleanup of this create_session call has removed
Cleaned == (StoredIds(sessions) \cup {CreatedId}) \ StoredIds(sessions')

\* the sessions that were not active and are still stored
KeptInactive ==
    {id \in (StoredIds(sessions) \cap StoredIds(sessions')) \ {CreatedId} :
        Stored(sessions, id).status # "active"}

\* C34: _cleanup_old_sessions never removes a session whose status is
\* active; it removes non-active sessions in order of oldest updated_at
\* first and stops as soon as the remaining count is at most 80% of
\* max_sessions (and not before, while a non-active session is left).
C34_CleanupOldestInactive ==
    [][output'.fn = "create_session" /\ sessions' # sessions =>
         /\ CreatedId \notin Cleaned
         /\ \A id \in Cleaned : Stored(sessions, id).status # "active"
         /\ \A id \in Cleaned, kept \in KeptInactive :
               Stored(sessions, id).updated_at
                 <= Stored(sessions, kept).updated_at
         /\ Cleaned # {} =>
               /\ Len(sessions') + Cardinality(Cleaned) > max_sessions
               /\ 10 * (Len(sessions') + 1) > 8 * max_sessions
         /\ (Len(sessions') > max_sessions /\ KeptInactive # {}) =>
               10 * Len(sessions') <= 8 * max_sessions]_vars

\* a create_session whose cleanup deleted the two oldest archived sessions
\* and stopped with a third, newer one left in the store
C34_Witness ==
    /\ output.fn = "create_session"
    /\ Cardinality(output.cleaned) = 2
    /\ \E i \in 1..Len(sessions) :
          /\ sessions[i].status = "archived"
          /\ sessions[i].updated_at > 0

(***************************************************************************)
(* C35                                                                     *)
(***************************************************************************)
\* C35: with two or more execute_with_retry calls in flight for the same
\* provider, the operation is never invoked while that provider's breaker
\* is open: once the breaker has opened, the calls already inside their
\* retry loop make no further attempt until it permits execution again.
\* A step that puts a call into operation() is an invocation.
C35_NoAttemptWhileOpen ==
    [][\A r \in Stepped :
          r.pc = "operation" => circuit_breakers'[r.provider].state # "open"]_vars

(***************************************************************************)
(* C36                                                                     *)
(***************************************************************************)
\* C36: a breaker in state open leaves that state only through a
\* can_execute() check made after more than recovery_timeout has elapsed
\* (which makes it half-open and keeps its failure_count); in particular a
\* success reported by a call that started before the breaker opened does
\* not move it from open to closed or reset its failure_count.
C36_OpenUntilRecovery ==
    [][\A p \in DOMAIN circuit_breakers :
          (circuit_breakers[p].state = "open"
           /\ circuit_breakers'[p] # circuit_breakers[p])
          => \/ /\ circuit_breakers'[p].state = "open"
                /\ circuit_breakers'[p].failure_count
                     >= circuit_breakers[p].failure_count
             \/ /\ circuit_breakers'[p] =
                     [circuit_breakers[p] EXCEPT !.state = "half-open"]
                /\ now - circuit_breakers[p].last_failure_time
                     > recovery_timeout]_vars

(***************************************************************************)
(* C37                                                                     *)
(***************************************************************************)
\* the calls that the step has taken out of their backoff sleep
Woken ==
    {r \in InFlight : r.pc = "sleep" /\ CopiesIn(r, calls') < CopiesIn(r, calls)}

\* C37: every backoff suspension inside execute_with_retry is followed by
\* another invocation of the operation: the executor never waits out a
\* backoff delay after the attempt that turns out to be its last and then
\* propagates the error without retrying.
C37_BackoffThenRetry ==
    [][Woken # {} => \A r \in Stepped : r.pc = "operation"]_vars

(***************************************************************************)
(* C38                                                                     *)
(***************************************************************************)
\* C38: every execute_with_retry call terminates, by returning or raising,
\* provided each invocation of the operation terminates, and it invokes the
\* operation at most 3 times (max_retries of the unknown kind plus one)
\* whatever kinds of error occur.
C38_Terminates ==
    /\ [](\A r \in InFlight :
            r.invocations <= retry_strategies[UNKNOWN_ERROR].max_retries + 1)
    /\ \A p \in AllProviders : (Running(p) # {}) ~> (Running(p) = {})

\* a call that raised after its third invocation while the call of the
\* other provider is still running
C38_Witness ==
    \E r \in Outcomes :
        /\ r.pc = "raised"
        /\ r.invocations = retry_strategies[UNKNOWN_ERROR].max_retries + 1
        /\ \E other \in InFlight :
              other.provider # r.provider /\ other.pc = "sleep"

(***************************************************************************)
(* C39                                                                     *)
(***************************************************************************)
\* the table entries whose session_id is s
TableEntries(s) == {id \in DOMAIN connections : connections[id].session_id = s}

\* C39: the session index never holds an empty connection set: each session
\* id present in the index has at least one connection, so
\* get_session_connections(s) equals the number of table entries whose
\* session_id is s, and the cleanup loop never finds an entry to delete.
C39_NoEmptySet ==
    /\ \A s \in DOMAIN session_connections : session_connections[s] # {}
    /\ \A s \in Sessions :
          get_session_connections(session_connections, s)
            = Cardinality(TableEntries(s))

\* the last connection of a session is gone and with it the session's
\* entry, while another session keeps its connection
C39_Witness ==
    /\ next_id = MaxConnections
    /\ Cardinality(DOMAIN connections) = 1
    /\ \E s \in Sessions : s \notin DOMAIN session_connections
    /\ \E s \in DOMAIN session_connections :
          Cardinality(session_connections[s]) = 1

(***************************************************************************)
(* C40                                                                     *)
(***************************************************************************)
\* the send_event calls that the step has brought to their end
Finished ==
    {b \in BagToSet(broadcasts') :
        b.pc = "done" /\ CopiesIn(b, broadcasts') > CopiesIn(b, broadcasts)}

\* the send_event calls that the step has suspended in a new send_text
Sending ==
    {b \in BagToSet(broadcasts') :
        b.pc = "sending" /\ CopiesIn(b, broadcasts') > CopiesIn(b, broadcasts)}

\* failed_sends of the connection when b, ending, removes it: the count of
\* the table, with the outcome of b's last send if that send was to id
CountAtRemoval(b, id) ==
    LET last == b.attempts[Len(b.attempts)]
    IN  IF b.attempts # <<>> /\ last[1] = id
        THEN IF last[2] = "ok" THEN 0
             ELSE IF last[2] = "error" THEN connections[id].failed_sends + 1
             ELSE connections[id].failed_sends
        ELSE connections[id].failed_sends

\* C40: with overlapping send_event calls on the same session, a connection
\* is removed with reason send_failure only if its failed-send counter is
\* at least max_failed_sends (or its send raised a disconnect) at the
\* moment of removal: a connection whose most recent send succeeded and
\* reset its counter to 0 is never removed by a broadcast that marked it
\* earlier, and no send is attempted on a connection already marked not
\* alive.
C40_RemovedOnlyWhenFailed ==
    [][/\ \A b \in Finished, id \in DOMAIN connections \ DOMAIN connections' :
             \/ CountAtRemoval(b, id) >= max_failed_sends
             \/ \E k \in 1..Len(b.attempts) : b.attempts[k] = <<id, "disconnect">>
       /\ \A b \in Sending :
             info([c |-> connections', s |-> session_connections',
                   d |-> detached'], b.connection_ids[b.i]).is_alive]_vars

====
